---- MODULE Spec2Model ----
(***************************************************************************)
(* Model of the snowboarding coaching server: the upload handlers of       *)
(* server/index.js, the 4-stage pose pipeline of pose-pipeline-models.js,  *)
(* the image-based analyses of replicate-models.js and the follow-up chat  *)
(* routing of POST /api/chat.                                              *)
(*                                                                         *)
(* JavaScript arrays are 0-based; a TLA+ sequence s holds the JS element   *)
(* s[k] at position k+1 (see At).  A frame is named by the number %i of    *)
(* its file frame-%i.png.                                                  *)
(***************************************************************************)
EXTENDS Integers, Sequences, FiniteSets, TLC

(* ---------------------------------------------------------------------- *)
(* Program constants                                                       *)
(* ---------------------------------------------------------------------- *)

\* number of timestamps asked of ffmpeg: at most this many frame files
NumTimestamps == 9
\* estimatePoses analyses at most this many frames
PoseFrameCap == 5
\* analyzeSnowboardingVideoMultiFrame analyses at most this many frames
MultiFrameCap == 3

(* ---------------------------------------------------------------------- *)
(* Bounds of the model                                                     *)
(* ---------------------------------------------------------------------- *)

\* a follow-up question is made of at most this many words
MaxWords == 2

VARIABLES
    pc,               \* position of the request handler / the awaited function
    endpoint,         \* "upload" or "analyze-pose"
    file,             \* what the video field of the form carried
    poseAnalysis,     \* req.body.poseAnalysis
    poseQuery,        \* req.query.pose
    usePoseAnalysis,  \* index.js:147
    videoOnDisk,      \* the file multer stored under uploads/
    frameDirOnDisk,   \* uploads/frames/<filename> exists
    framesOnDisk,     \* numbers of the frame-%i.png files in the frame dir
    frameFiles,       \* index.js:137 sorted list of frame paths
    i,                \* loop index of the running stage
    poseAnalyses,     \* part_002:56
    technicalAnalysis,\* part_002:160 allAnalysisResults / the joined text
    sceneDescription, \* part_002:232 sceneDescriptions / the joined text
    mfAnalyses,       \* replicate-models.js:264 analyses
    advOutputs,       \* replicate-models.js:198,217 imageAnalysis, contextAnalysis
    analysis,         \* value the awaited analysis function returned
    calls,            \* every replicate.run issued for this request, in order
    inflight,         \* replicate.run calls issued and not yet settled
    failedCalls,      \* calls whose promise rejected
    fallbacks,        \* catch blocks that switched to another analysis
    response,         \* what res.status(..).json(..) sent
    chatPc,           \* position of the POST /api/chat handler
    question,         \* req.body.question
    analysisData,     \* req.body.analysisData
    prompt,           \* index.js:233
    sectionType,      \* index.js:234
    chatResponse,     \* response of POST /api/chat
    premPc,           \* position of analyzeSnowboardingVideoPremium
    premFramePaths,   \* its argument
    premCalls,        \* every replicate.run it issued, in order
    premPromises,     \* replicate-models.js:77 analysisPromises
    premOrder,        \* indices of the per-frame calls in order of completion
    premAnalyses,     \* replicate-models.js:101 analyses
    premResult,       \* what the function returned or threw
    textPc,           \* how often cleanText was applied
    textIn,           \* a generated text
    textOnce,         \* cleanText(textIn)
    textTwice,        \* cleanText(cleanText(textIn))
    appVariant,       \* which App of App.tsx runs: 1 (lines 26-190) or 2 (229-924)
    chatHistory,      \* App.tsx:232 the turns of the chat
    isAnalyzing,      \* App.tsx:231
    analysisResult,   \* App.tsx:230
    uploadedVideo,    \* App.tsx:233
    uploadError,      \* part_000:391 error of VideoUpload
    fetches,          \* the fetch calls of the browser not yet answered
    started,          \* number of video analyses started
    sent,             \* number of chat messages sent
    twoPc,            \* position of each of two upload requests
    twoName,          \* req.file.filename of each request
    twoFrameFiles,    \* index.js:137 frameFiles of each request
    twoResponse,      \* the response of each request
    uploads,          \* names of the files in uploads/
    frameDirs,        \* names of the directories in uploads/frames/
    frames,           \* <<directory, number>> of the frame-%i.png files
    uuids             \* the values uuidv4() has returned

serverVars == <<pc, endpoint, file, poseAnalysis, poseQuery, usePoseAnalysis,
                videoOnDisk, frameDirOnDisk, framesOnDisk, frameFiles, i,
                poseAnalyses, technicalAnalysis, sceneDescription, mfAnalyses,
                advOutputs, analysis, calls, inflight, failedCalls, fallbacks, response>>

chatVars == <<chatPc, question, analysisData, prompt, sectionType, chatResponse>>

premiumVars == <<premPc, premFramePaths, premCalls, premPromises, premOrder,
                 premAnalyses, premResult>>

cleanVars == <<textPc, textIn, textOnce, textTwice>>

clientVars == <<appVariant, chatHistory, isAnalyzing, analysisResult,
                uploadedVideo, uploadError, fetches, started, sent>>

twoVars == <<twoPc, twoName, twoFrameFiles, twoResponse, uploads, frameDirs,
             frames, uuids>>

\* the variables of the other specifications
restVars == <<premiumVars, cleanVars, clientVars, twoVars>>
nonPremiumVars == <<serverVars, chatVars, cleanVars, clientVars, twoVars>>
nonCleanVars == <<serverVars, chatVars, premiumVars, clientVars, twoVars>>
nonClientVars == <<serverVars, chatVars, premiumVars, cleanVars, twoVars>>
nonTwoVars == <<serverVars, chatVars, premiumVars, cleanVars, clientVars>>
otherVars == <<chatVars, restVars>>

vars == <<serverVars, chatVars, restVars>>

reqVars == <<endpoint, file, poseAnalysis, poseQuery, usePoseAnalysis>>
diskVars == <<videoOnDisk, frameDirOnDisk, framesOnDisk>>
stageVars == <<poseAnalyses, technicalAnalysis, sceneDescription, mfAnalyses,
               advOutputs>>
callVars == <<calls, inflight, failedCalls>>

(* ---------------------------------------------------------------------- *)
(* JavaScript helpers                                                      *)
(* ---------------------------------------------------------------------- *)

Min(a, b) == IF a < b THEN a ELSE b

\* JS array indexing: defined for 0 <= k < length, undefined otherwise
InRange(arr, k) == 0 <= k /\ k < Len(arr)
At(arr, k) == arr[k + 1]

\* Array.prototype.join on an array of strings; a string is the sequence
\* of its pieces
RECURSIVE join(_, _)
join(items, sep) ==
    IF Len(items) = 0 THEN <<>>
    ELSE IF Len(items) = 1 THEN items[1]
    ELSE items[1] \o sep \o join(Tail(items), sep)

\* the sorted list of a set of frame numbers (readdirSync ... .sort())
RECURSIVE SortedSeq(_)
SortedSeq(S) ==
    IF S = {} THEN <<>>
    ELSE LET m == CHOOSE x \in S : \A y \in S : x <= y
         IN  <<m>> \o SortedSeq(S \ {m})

SeqRange(s) == {s[k] : k \in 1..Len(s)}

IsPrefix(s, t) == Len(s) <= Len(t) /\ SubSeq(t, 1, Len(s)) = s

(* ---------------------------------------------------------------------- *)
(* Outputs of replicate.run                                                *)
(* ---------------------------------------------------------------------- *)

\* the tokens of a generated text
ModelTokens == << <<"Good">>, <<"posture">> >>
\* the same text as one string
ModelText == <<"Good", " ", "posture">>

\* shapes a text model answers with
TextOutputs == { [type |-> "array", items |-> ModelTokens],
                 [type |-> "string", str |-> ModelText] }

\* shapes the pose model answers with
PoseOutputs == { [type |-> "array", items |-> << <<"overlay">>, <<"generated">> >>],
                 [type |-> "string", str |-> <<"overlay">>],
                 [type |-> "object", url |-> <<"overlay">>],
                 [type |-> "object", output |-> <<"overlay">>],
                 [type |-> "object"] }

ArrayIsArray(out) == out.type = "array"

\* part_002:203, 272, 422: Array.isArray(x) ? x.join(' ') : x
TextOf(out) == IF ArrayIsArray(out) THEN join(out.items, <<" ">>) ELSE out.str

\* part_002:83-105: the image URL taken from a pose model output
PoseImageUrl(out) ==
    IF ArrayIsArray(out) THEN [type |-> "string", str |-> At(out.items, 0)]
    ELSE IF out.type = "string" THEN [type |-> "string", str |-> out.str]
    ELSE IF "url" \in DOMAIN out THEN [type |-> "string", str |-> out.url]
    ELSE IF "output" \in DOMAIN out THEN [type |-> "string", str |-> out.output]
    ELSE out

(* ---------------------------------------------------------------------- *)
(* Texts: a text is a sequence of labelled sections; a section names the   *)
(* frame whose model output it carries (0 for none) and that output        *)
(* ---------------------------------------------------------------------- *)

Section(label, frame, text) == [label |-> label, frame |-> frame, text |-> text]

\* a fixed string of the source, named by its variable
Static(name) == << Section(name, 0, <<>>) >>

IsStatic(text) == \A k \in 1..Len(text) : text[k].text = <<>> /\ text[k].frame = 0

\* a prompt template with the first `cut` characters of a text embedded
Template(name, text, cut) == [template |-> name, embeds |-> text, cut |-> cut]

PromptKeys == {"strengths", "improvements", "drills"}

\* a replicate.run call: the stage that issues it, the frame it sends
\* (0 for a text-only call) and the label the prompt carries
Call(stage, frame, label) == [stage |-> stage, frame |-> frame, label |-> label]

NoValue == [type |-> "undefined"]

(* ---------------------------------------------------------------------- *)
(* Initial state: the server listens, no request has arrived               *)
(* ---------------------------------------------------------------------- *)

ServerInit ==
    /\ pc = "idle"
    /\ endpoint = "none"
    /\ file = "none"
    /\ poseAnalysis = "absent"
    /\ poseQuery = "absent"
    /\ usePoseAnalysis = FALSE
    /\ videoOnDisk = FALSE
    /\ frameDirOnDisk = FALSE
    /\ framesOnDisk = {}
    /\ frameFiles = <<>>
    /\ i = 0
    /\ poseAnalyses = <<>>
    /\ technicalAnalysis = <<>>
    /\ sceneDescription = <<>>
    /\ mfAnalyses = <<>>
    /\ advOutputs = <<>>
    /\ analysis = NoValue
    /\ calls = <<>>
    /\ inflight = {}
    /\ failedCalls = {}
    /\ fallbacks = <<>>
    /\ response = [status |-> 0]

ChatInit ==
    /\ chatPc = "idle"
    /\ question = <<>>
    /\ analysisData = NoValue
    /\ prompt = NoValue
    /\ sectionType = ""
    /\ chatResponse = [status |-> 0]

PremiumInit ==
    /\ premPc = "idle"
    /\ premFramePaths = <<>>
    /\ premCalls = <<>>
    /\ premPromises = <<>>
    /\ premOrder = <<>>
    /\ premAnalyses = <<>>
    /\ premResult = NoValue

CleanInit ==
    /\ textPc = "raw"
    /\ textIn = <<>>
    /\ textOnce = <<>>
    /\ textTwice = <<>>

\* App.tsx:230-233 the state of a freshly mounted App
ClientState ==
    /\ chatHistory = <<>>
    /\ isAnalyzing = FALSE
    /\ analysisResult = [type |-> "null"]
    /\ uploadedVideo = [type |-> "null"]
    /\ uploadError = [type |-> "null"]
    /\ fetches = {}
    /\ started = 0
    /\ sent = 0

ClientInit == appVariant = 2 /\ ClientState

\* the two requests of the specification of concurrent uploads
Reqs == {1, 2}

TwoInit ==
    /\ twoPc = [r \in Reqs |-> "idle"]
    /\ twoName = [r \in Reqs |-> <<>>]
    /\ twoFrameFiles = [r \in Reqs |-> <<>>]
    /\ twoResponse = [r \in Reqs |-> [status |-> 0]]
    /\ uploads = {}
    /\ frameDirs = {}
    /\ frames = {}
    /\ uuids = {}

RestInit == PremiumInit /\ CleanInit /\ ClientInit /\ TwoInit

Init == ServerInit /\ ChatInit /\ RestInit

(* ---------------------------------------------------------------------- *)
(* replicate.run: issuing a call and settling it                           *)
(* ---------------------------------------------------------------------- *)

\* the call the running function awaits
Awaited == CHOOSE c \in inflight : TRUE

Issue(c) ==
    /\ calls' = Append(calls, c)
    /\ inflight' = inflight \cup {c}
    /\ UNCHANGED failedCalls

Resolve ==
    /\ inflight' = inflight \ {Awaited}
    /\ UNCHANGED <<calls, failedCalls>>

Reject ==
    /\ inflight' = inflight \ {Awaited}
    /\ failedCalls' = failedCalls \cup {Awaited}
    /\ UNCHANGED calls

(* ---------------------------------------------------------------------- *)
(* multer and the start of the two upload handlers                         *)
(* ---------------------------------------------------------------------- *)

Endpoints == {"upload", "analyze-pose"}
\* no file in the video field, a video, a file that is not a video
FileKinds == {"none", "video", "notvideo"}
FlagValues == {"true", "false", "absent"}

\* index.js:81-88 upload.fileFilter
fileFilter(f) == f = "video"

\* index.js:124-134, 411-426: the request up to `await extractFrames`;
\* extractFrames creates the frame directory before it starts ffmpeg
Request(ep, f, pa, pq) ==
    /\ pc = "idle"
    /\ endpoint' = ep
    /\ file' = f
    /\ poseAnalysis' = pa
    /\ poseQuery' = pq
    /\ UNCHANGED <<usePoseAnalysis, framesOnDisk, frameFiles, i, stageVars,
                   analysis, callVars, fallbacks, otherVars>>
    /\ IF f = "none"
         THEN /\ response' = [status |-> 400, error |-> "No video file uploaded"]
              /\ pc' = "done"
              /\ UNCHANGED <<videoOnDisk, frameDirOnDisk>>
         ELSE IF ~fileFilter(f)
         \* multer hands the filter's Error to next(err): no handler of this
         \* app takes it, Express answers 500
         THEN /\ response' = [status |-> 500, error |-> "Only video files are allowed!"]
              /\ pc' = "done"
              /\ UNCHANGED <<videoOnDisk, frameDirOnDisk>>
         ELSE /\ videoOnDisk' = TRUE
              /\ frameDirOnDisk' = TRUE
              /\ pc' = "extract"
              /\ UNCHANGED response

\* a handler that looks at the form field only
UsePoseAnalysisFieldOnly(pa, pq) == pa = "true"
\* index.js:147
UsePoseAnalysis(pa, pq) == pa = "true" \/ pq = "true"

\* which analysis the handler awaits first (index.js:151-161, 439)
PrimaryAnalysis(ep, usePose) ==
    IF ep = "analyze-pose" \/ usePose THEN "pose" ELSE "mf"

\* index.js:105-108, 136-161, 428-439: ffmpeg wrote n frames; the handler
\* lists and sorts them and calls the analysis
ExtractFramesEnd(n) ==
    /\ pc = "extract"
    /\ framesOnDisk' = 1..n
    /\ frameFiles' = SortedSeq(1..n)
    /\ usePoseAnalysis' = (endpoint = "upload" /\ UsePoseAnalysis(poseAnalysis, poseQuery))
    /\ pc' = PrimaryAnalysis(endpoint, usePoseAnalysis')
    /\ i' = 0
    /\ UNCHANGED <<endpoint, file, poseAnalysis, poseQuery, videoOnDisk,
                   frameDirOnDisk, stageVars, analysis, callVars, fallbacks,
                   response, otherVars>>

\* index.js:109-112, 211-218, 468-474: ffmpeg failed after writing n frames;
\* the handler's catch answers 500
ExtractFramesError(n) ==
    /\ pc = "extract"
    /\ framesOnDisk' = 1..n
    /\ response' = [status |-> 500,
                    error |-> IF endpoint = "upload" THEN "Failed to process video"
                              ELSE "Failed to process video with pose analysis"]
    /\ pc' = "done"
    /\ UNCHANGED <<reqVars, videoOnDisk, frameDirOnDisk, frameFiles, i,
                   stageVars, analysis, callVars, fallbacks, otherVars>>

(* ---------------------------------------------------------------------- *)
(* Stage 0: estimatePoses (part_002:49-141)                                *)
(* ---------------------------------------------------------------------- *)

\* part_002:58 number of frames the pose loop visits
PoseFrames(framePaths) == Min(Len(framePaths), PoseFrameCap)

\* part_002:58-78: the loop issues the call for frame i
PoseCall ==
    /\ pc = "pose"
    /\ inflight = {}
    /\ i < PoseFrames(frameFiles)
    /\ Issue(Call("pose", At(frameFiles, i), "pose"))
    /\ UNCHANGED <<pc, reqVars, diskVars, frameFiles, i, stageVars, analysis,
                   fallbacks, response, otherVars>>

\* part_002:80-115: the call returned, the frame is recorded
PoseReturn(out) ==
    /\ pc = "pose"
    /\ inflight # {}
    /\ Resolve
    /\ poseAnalyses' = Append(poseAnalyses,
                              [frame |-> i + 1, poseImageUrl |-> PoseImageUrl(out)])
    /\ i' = i + 1
    /\ UNCHANGED <<pc, reqVars, diskVars, frameFiles, technicalAnalysis,
                   sceneDescription, mfAnalyses, advOutputs, analysis,
                   fallbacks, response, otherVars>>

\* a loop that gives up at the first frame whose call threw
PoseAbortOnFrameError(pos, k) == [pc |-> "catch", i |-> k + 1]

\* where the loop goes after a frame's call threw (part_002:117-121)
PoseAfterFrameError(pos, k) == [pc |-> pos, i |-> k + 1]

\* part_002:117-121: the call threw, the frame is skipped
PoseThrow ==
    /\ pc = "pose"
    /\ inflight # {}
    /\ Reject
    /\ pc' = PoseAfterFrameError(pc, i).pc
    /\ i' = PoseAfterFrameError(pc, i).i
    /\ UNCHANGED <<reqVars, diskVars, frameFiles, stageVars, analysis,
                   fallbacks, response, otherVars>>

\* a stage that goes on without any analysed frame
PoseStageNeverThrows(analyses) == "tech"

\* part_002:124-126: the stage throws when no frame was analysed
PoseStageResult(analyses) == IF Len(analyses) = 0 THEN "catch" ELSE "tech"

\* a result that counts the frames the loop visited
PoseResultCountsVisited(analyses, framePaths) ==
    [ poseAnalyses |-> analyses, success |-> TRUE,
      frameCount |-> PoseFrames(framePaths) ]
\* part_002:131-135 the object estimatePoses returns
PoseResult(analyses, framePaths) ==
    [ poseAnalyses |-> analyses, success |-> TRUE, frameCount |-> Len(analyses) ]
\* part_002:124-135, 455-458: the loop is over
PoseEnd ==
    /\ pc = "pose"
    /\ inflight = {}
    /\ i >= PoseFrames(frameFiles)
    /\ pc' = PoseStageResult(poseAnalyses)
    /\ i' = 0
    /\ UNCHANGED <<reqVars, diskVars, frameFiles, stageVars, analysis,
                   callVars, fallbacks, response, otherVars>>

(* ---------------------------------------------------------------------- *)
(* Stage 1: analyzeTechnicalMovement (part_002:148-214)                    *)
(* ---------------------------------------------------------------------- *)

\* framePaths[k], 0 standing for undefined
FrameAt(framePaths, k) == IF InRange(framePaths, k) THEN At(framePaths, k) ELSE 0

\* part_002:154-158 keyFrames
TechKeyFrames(framePaths) ==
    << FrameAt(framePaths, 0),
       FrameAt(framePaths, Len(framePaths) \div 2),
       FrameAt(framePaths, Len(framePaths) - 1) >>

\* part_002:164 frameNumber
frameNumber(k) == IF k = 0 THEN "beginning" ELSE IF k = 1 THEN "middle" ELSE "end"

\* String.prototype.toUpperCase on the labels used
toUpperCase(str) ==
    CASE str = "beginning"  -> "BEGINNING"
      [] str = "middle"     -> "MIDDLE"
      [] str = "end"        -> "END"
      [] str = "initiation" -> "INITIATION"
      [] str = "execution"  -> "EXECUTION"
      [] str = "completion" -> "COMPLETION"

\* part_002:162-201: the loop reads key frame i and issues its call;
\* imageToBase64 of an undefined path throws (part_002:210-213)
TechCall ==
    /\ pc = "tech"
    /\ inflight = {}
    /\ i < Len(TechKeyFrames(frameFiles))
    /\ LET frame == At(TechKeyFrames(frameFiles), i)
       IN  IF frame = 0
           THEN /\ pc' = "catch"
                /\ UNCHANGED callVars
           ELSE /\ Issue(Call("tech", frame, frameNumber(i)))
                /\ UNCHANGED pc
    /\ UNCHANGED <<reqVars, diskVars, frameFiles, i, stageVars, analysis,
                   fallbacks, response, otherVars>>

\* part_002:203-204
TechReturn(out) ==
    /\ pc = "tech"
    /\ inflight # {}
    /\ Resolve
    /\ technicalAnalysis' = Append(technicalAnalysis,
           Section(toUpperCase(frameNumber(i)), Awaited.frame, TextOf(out)))
    /\ i' = i + 1
    /\ UNCHANGED <<pc, reqVars, diskVars, frameFiles, poseAnalyses,
                   sceneDescription, mfAnalyses, advOutputs, analysis,
                   fallbacks, response, otherVars>>

\* a stage that issues the failed call again
TechThrowRetries ==
    /\ pc = "tech"
    /\ inflight # {}
    /\ Reject
    /\ UNCHANGED pc
    /\ UNCHANGED <<reqVars, diskVars, frameFiles, i, stageVars, analysis,
                   fallbacks, response, otherVars>>
\* part_002:210-213: a failed call ends the stage, the error goes to
\* the catch of analyzeSnowboardingVideoPoseBased
TechThrow ==
    /\ pc = "tech"
    /\ inflight # {}
    /\ Reject
    /\ pc' = "catch"
    /\ UNCHANGED <<reqVars, diskVars, frameFiles, i, stageVars, analysis,
                   fallbacks, response, otherVars>>

\* an orchestrator that leaves stage 2 out
StageAfterTechSkipsScene == "report"

\* the stage analyzeSnowboardingVideoPoseBased awaits after stage 1
\* (part_002:458-461)
StageAfterTech == "scene"

\* part_002:207-208, 461
TechEnd ==
    /\ pc = "tech"
    /\ inflight = {}
    /\ i >= Len(TechKeyFrames(frameFiles))
    /\ pc' = StageAfterTech
    /\ i' = 0
    /\ UNCHANGED <<reqVars, diskVars, frameFiles, stageVars, analysis,
                   callVars, fallbacks, response, otherVars>>

(* ---------------------------------------------------------------------- *)
(* Stage 2: describeScene (part_002:221-283)                               *)
(* ---------------------------------------------------------------------- *)

\* a scene stage that takes the first three frames, as the multi-frame
\* analysis does
SceneFirstThreeFrames(framePaths) ==
    << FrameAt(framePaths, 0), FrameAt(framePaths, 1), FrameAt(framePaths, 2) >>

\* part_002:226-230 keyFrames, the frames
SceneKeyFrames(framePaths) ==
    << FrameAt(framePaths, 0),
       FrameAt(framePaths, Len(framePaths) \div 2),
       FrameAt(framePaths, Len(framePaths) - 1) >>

\* part_002:226-230 keyFrames, the phases
phase(k) == IF k = 0 THEN "initiation" ELSE IF k = 1 THEN "execution" ELSE "completion"

\* part_002:234-270
SceneCall ==
    /\ pc = "scene"
    /\ inflight = {}
    /\ i < Len(SceneKeyFrames(frameFiles))
    /\ LET frame == At(SceneKeyFrames(frameFiles), i)
       IN  IF frame = 0
           THEN /\ pc' = "catch"
                /\ UNCHANGED callVars
           ELSE /\ Issue(Call("scene", frame, phase(i)))
                /\ UNCHANGED pc
    /\ UNCHANGED <<reqVars, diskVars, frameFiles, i, stageVars, analysis,
                   fallbacks, response, otherVars>>

\* part_002:272-273
SceneReturn(out) ==
    /\ pc = "scene"
    /\ inflight # {}
    /\ Resolve
    /\ sceneDescription' = Append(sceneDescription,
           Section(toUpperCase(phase(i)), Awaited.frame, TextOf(out)))
    /\ i' = i + 1
    /\ UNCHANGED <<pc, reqVars, diskVars, frameFiles, poseAnalyses,
                   technicalAnalysis, mfAnalyses, advOutputs, analysis,
                   fallbacks, response, otherVars>>

\* part_002:279-282
SceneThrow ==
    /\ pc = "scene"
    /\ inflight # {}
    /\ Reject
    /\ pc' = "catch"
    /\ UNCHANGED <<reqVars, diskVars, frameFiles, i, stageVars, analysis,
                   fallbacks, response, otherVars>>

\* part_002:276-277, 464
SceneEnd ==
    /\ pc = "scene"
    /\ inflight = {}
    /\ i >= Len(SceneKeyFrames(frameFiles))
    /\ pc' = "report"
    /\ i' = 0
    /\ UNCHANGED <<reqVars, diskVars, frameFiles, stageVars, analysis,
                   callVars, fallbacks, response, otherVars>>

(* ---------------------------------------------------------------------- *)
(* Stage 3: generateCoachingReport (part_002:290-442)                      *)
(* ---------------------------------------------------------------------- *)

Null == [type |-> "null"]

\* a report stage that also submits the first deferred template
ReportCallSubmitsTemplates ==
    /\ pc = "report"
    /\ inflight = {}
    /\ calls' = calls \o << Call("report", 0, "briefAssessment"),
                            Call("report", 0, "detailedStrengthsPrompt") >>
    /\ inflight' = inflight \cup {Call("report", 0, "briefAssessment")}
    /\ UNCHANGED failedCalls
    /\ UNCHANGED <<pc, reqVars, diskVars, frameFiles, i, stageVars, analysis,
                   fallbacks, response, otherVars>>
\* part_002:295-344: the prompts are built, the one call is issued
ReportCall ==
    /\ pc = "report"
    /\ inflight = {}
    /\ Issue(Call("report", 0, "briefAssessment"))
    /\ UNCHANGED <<pc, reqVars, diskVars, frameFiles, i, stageVars, analysis,
                   fallbacks, response, otherVars>>

\* part_002:315-334, 421-431 result of generateCoachingReport; the brief
\* assessment is the model's text after cleanText
CoachingReport(technical, scene, poses, out) ==
    [ briefAssessment |-> << Section("cleanText(briefAssessment)", 0, TextOf(out)) >>,
      detailedPrompts |->
          [ strengths    |-> Template("detailedStrengthsPrompt", technical, 2000),
            improvements |-> Template("detailedImprovementsPrompt", technical, 2000),
            drills       |-> Template("detailedDrillsPrompt", technical, 2000) ],
      poseAnalyses |-> poses ]

\* part_002:479-482, index.js:458-461
PoseImages(poses) ==
    [k \in 1..Len(poses) |-> [frame |-> poses[k].frame,
                              imageUrl |-> poses[k].poseImageUrl]]

\* part_002:474-488 the object returned when the four stages succeeded
PoseBasedResult(coachingReport, poses, technical, scene) ==
    [ type |-> "object",
      success |-> TRUE,
      analysis |-> coachingReport.briefAssessment,
      poseVideoUrl |-> Null,
      poseAnalyses |-> poses,
      poseImages |-> PoseImages(poses),
      technicalAnalysis |-> technical,
      sceneDescription |-> scene,
      detailedPrompts |-> coachingReport.detailedPrompts,
      pipeline |-> "pose-based-4stage",
      message |-> "Video analyzed using advanced ControlNet pose estimation pipeline" ]

\* part_002:346-436, 470-488
ReportReturn(out) ==
    /\ pc = "report"
    /\ inflight # {}
    /\ Resolve
    /\ analysis' = PoseBasedResult(
           CoachingReport(technicalAnalysis, sceneDescription, poseAnalyses, out),
           poseAnalyses, technicalAnalysis, sceneDescription)
    /\ pc' = "respond"
    /\ UNCHANGED <<reqVars, diskVars, frameFiles, i, stageVars, fallbacks,
                   response, otherVars>>

\* part_002:438-441
ReportThrow ==
    /\ pc = "report"
    /\ inflight # {}
    /\ Reject
    /\ pc' = "catch"
    /\ UNCHANGED <<reqVars, diskVars, frameFiles, i, stageVars, analysis,
                   fallbacks, response, otherVars>>

(* ---------------------------------------------------------------------- *)
(* The catch of analyzeSnowboardingVideoPoseBased (part_002:490-530)       *)
(* ---------------------------------------------------------------------- *)

\* part_002:495
fallbackAnalysis == Static("fallbackAnalysis")

\* fallback templates that embed what stage 1 produced before the failure
FallbackPromptsFromStages ==
    [ strengths    |-> Template("fallbackStrengths", technicalAnalysis, 1500),
      improvements |-> Template("fallbackImprovements", technicalAnalysis, 1500),
      drills       |-> Template("fallbackDrills", technicalAnalysis, 1500) ]

\* part_002:510-514
FallbackPrompts ==
    [ strengths    |-> Template("fallbackStrengths", fallbackAnalysis, 1500),
      improvements |-> Template("fallbackImprovements", fallbackAnalysis, 1500),
      drills       |-> Template("fallbackDrills", fallbackAnalysis, 1500) ]

\* a catch block that keeps what the stages produced before the failure
FallbackResultKeepsStages ==
    [ type |-> "object",
      success |-> TRUE,
      analysis |-> Static("fallbackBriefAssessment"),
      poseVideoUrl |-> Null,
      poseImages |-> PoseImages(poseAnalyses),
      technicalAnalysis |-> IF technicalAnalysis = <<>> THEN fallbackAnalysis
                            ELSE technicalAnalysis,
      sceneDescription |-> Static("Snowboarding technique analysis"),
      detailedPrompts |-> FallbackPrompts,
      pipeline |-> "image-based-fallback",
      message |-> "Video analyzed using fallback image-based pipeline" ]
\* part_002:519-529 the object returned by the catch block
FallbackResult ==
    [ type |-> "object",
      success |-> TRUE,
      analysis |-> Static("fallbackBriefAssessment"),
      poseVideoUrl |-> Null,
      poseImages |-> <<>>,
      technicalAnalysis |-> fallbackAnalysis,
      sceneDescription |-> Static("Snowboarding technique analysis"),
      detailedPrompts |-> FallbackPrompts,
      pipeline |-> "image-based-fallback",
      message |-> "Video analyzed using fallback image-based pipeline" ]

\* a catch block that rethrows to the caller
PoseBasedCatchRethrows ==
    /\ pc = "catch"
    /\ pc' = "primaryThrew"
    /\ UNCHANGED <<reqVars, diskVars, frameFiles, i, stageVars, analysis,
                   callVars, fallbacks, response, otherVars>>

\* part_002:490-530: every error of the four stages ends here; the block
\* makes no call and returns the static report
PoseBasedCatch ==
    /\ pc = "catch"
    /\ analysis' = FallbackResult
    /\ fallbacks' = Append(fallbacks, "static")
    /\ pc' = "respond"
    /\ UNCHANGED <<reqVars, diskVars, frameFiles, i, stageVars, callVars,
                   response, otherVars>>

(* ---------------------------------------------------------------------- *)
(* analyzeSnowboardingVideoMultiFrame (replicate-models.js:262-319)        *)
(* ---------------------------------------------------------------------- *)

\* replicate-models.js:267 framesToAnalyze
framesToAnalyze(framePaths) == Min(Len(framePaths), MultiFrameCap)

\* the string an image-based analysis returns
StringResult(name, text) == [type |-> "string", str |-> << Section(name, 0, text) >>]

\* replicate-models.js:268-288
MfCall ==
    /\ pc = "mf"
    /\ inflight = {}
    /\ i < framesToAnalyze(frameFiles)
    /\ Issue(Call("mf", At(frameFiles, i), "frame"))
    /\ UNCHANGED <<pc, reqVars, diskVars, frameFiles, i, stageVars, analysis,
                   fallbacks, response, otherVars>>

\* replicate-models.js:290: frameAnalysis.join(' ') is a TypeError when the
\* model answered with a string (315-318: rethrown)
MfReturn(out) ==
    /\ pc = "mf"
    /\ inflight # {}
    /\ Resolve
    /\ IF ArrayIsArray(out)
         THEN /\ mfAnalyses' = Append(mfAnalyses,
                      Section("Frame", Awaited.frame, join(out.items, <<" ">>)))
              /\ i' = i + 1
              /\ UNCHANGED pc
         ELSE /\ pc' = "primaryThrew"
              /\ UNCHANGED <<mfAnalyses, i>>
    /\ UNCHANGED <<reqVars, diskVars, frameFiles, poseAnalyses,
                   technicalAnalysis, sceneDescription, advOutputs, analysis,
                   fallbacks, response, otherVars>>

\* replicate-models.js:315-318
MfThrow ==
    /\ pc \in {"mf", "mfSynth"}
    /\ inflight # {}
    /\ Reject
    /\ pc' = "primaryThrew"
    /\ UNCHANGED <<reqVars, diskVars, frameFiles, i, stageVars, analysis,
                   fallbacks, response, otherVars>>

\* replicate-models.js:294-312: the loop is over, the synthesis is called
MfSynthCall ==
    /\ pc = "mf"
    /\ inflight = {}
    /\ i >= framesToAnalyze(frameFiles)
    /\ Issue(Call("mfSynth", 0, "synthesis"))
    /\ pc' = "mfSynth"
    /\ UNCHANGED <<reqVars, diskVars, frameFiles, i, stageVars, analysis,
                   fallbacks, response, otherVars>>

\* replicate-models.js:314
MfSynthReturn(out) ==
    /\ pc = "mfSynth"
    /\ inflight # {}
    /\ Resolve
    /\ IF ArrayIsArray(out)
         THEN /\ analysis' = StringResult("multiFrame", join(out.items, <<" ">>))
              /\ pc' = "respond"
         ELSE /\ pc' = "primaryThrew"
              /\ UNCHANGED analysis
    /\ UNCHANGED <<reqVars, diskVars, frameFiles, i, stageVars, fallbacks,
                   response, otherVars>>

(* ---------------------------------------------------------------------- *)
(* The inner catch of POST /api/upload (index.js:162-167)                  *)
(* ---------------------------------------------------------------------- *)

\* a catch that runs the primary multi-frame analysis again
UploadCatchRerunsPrimary ==
    /\ pc = "primaryThrew"
    /\ endpoint = "upload"
    /\ fallbacks' = Append(fallbacks, "advanced")
    /\ pc' = "mf"
    /\ i' = 0
    /\ UNCHANGED <<reqVars, diskVars, frameFiles, stageVars, analysis,
                   callVars, response, otherVars>>
\* index.js:162-165: the primary analysis threw, the handler awaits
\* analyzeSnowboardingVideoAdvanced
UploadCatch ==
    /\ pc = "primaryThrew"
    /\ endpoint = "upload"
    /\ fallbacks' = Append(fallbacks, "advanced")
    /\ pc' = "adv"
    /\ i' = 0
    /\ UNCHANGED <<reqVars, diskVars, frameFiles, stageVars, analysis,
                   callVars, response, otherVars>>

(* ---------------------------------------------------------------------- *)
(* analyzeSnowboardingVideoAdvanced (replicate-models.js:191-259)          *)
(* ---------------------------------------------------------------------- *)

\* replicate-models.js:45, 193 middleFrame
middleFrame(framePaths) == FrameAt(framePaths, Len(framePaths) \div 2)

AdvLabels == <<"imageAnalysis", "contextAnalysis", "finalOutput">>

\* a catch that rethrows instead of trying the cost-effective analysis
AdvancedCatchRethrows ==
    /\ pc' = "fallbackThrew"
    /\ UNCHANGED fallbacks

\* replicate-models.js:254-258: the catch returns the promise of
\* analyzeSnowboardingVideoCostEffective
AdvancedCatch ==
    /\ pc' = "ce"
    /\ fallbacks' = Append(fallbacks, "costEffective")

\* replicate-models.js:193-251: step i of the three calls; reading an
\* undefined middle frame throws, and so does .join on a string while the
\* third prompt is built
AdvCall ==
    /\ pc = "adv"
    /\ inflight = {}
    /\ i < Len(AdvLabels)
    /\ IF \/ middleFrame(frameFiles) = 0
          \/ (i = 2 /\ \E k \in 1..Len(advOutputs) : advOutputs[k] # "array")
         THEN /\ AdvancedCatch
              /\ UNCHANGED callVars
         ELSE /\ Issue(Call("adv", IF i = 2 THEN 0 ELSE middleFrame(frameFiles),
                            At(AdvLabels, i)))
              /\ UNCHANGED <<pc, fallbacks>>
    /\ UNCHANGED <<reqVars, diskVars, frameFiles, i, stageVars, analysis,
                   response, otherVars>>

\* replicate-models.js:198-253
AdvReturn(out) ==
    /\ pc = "adv"
    /\ inflight # {}
    /\ Resolve
    /\ IF i < 2
         THEN /\ advOutputs' = Append(advOutputs, out.type)
              /\ i' = i + 1
              /\ UNCHANGED <<pc, analysis, fallbacks>>
         ELSE /\ IF ArrayIsArray(out)
                   THEN /\ analysis' = StringResult("advanced", join(out.items, <<" ">>))
                        /\ pc' = "respond"
                        /\ UNCHANGED fallbacks
                   ELSE /\ AdvancedCatch
                        /\ UNCHANGED analysis
              /\ UNCHANGED <<advOutputs, i>>
    /\ UNCHANGED <<reqVars, diskVars, frameFiles, poseAnalyses,
                   technicalAnalysis, sceneDescription, mfAnalyses, response,
                   otherVars>>

\* replicate-models.js:254-258
AdvThrow ==
    /\ pc = "adv"
    /\ inflight # {}
    /\ Reject
    /\ AdvancedCatch
    /\ UNCHANGED <<reqVars, diskVars, frameFiles, i, stageVars, analysis,
                   response, otherVars>>

(* ---------------------------------------------------------------------- *)
(* analyzeSnowboardingVideoCostEffective (replicate-models.js:42-71)       *)
(* ---------------------------------------------------------------------- *)

\* replicate-models.js:45-64, 67-70
CeCall ==
    /\ pc = "ce"
    /\ inflight = {}
    /\ IF middleFrame(frameFiles) = 0
         THEN /\ pc' = "fallbackThrew"
              /\ UNCHANGED callVars
         ELSE /\ Issue(Call("ce", middleFrame(frameFiles), "output"))
              /\ UNCHANGED pc
    /\ UNCHANGED <<reqVars, diskVars, frameFiles, i, stageVars, analysis,
                   fallbacks, response, otherVars>>

\* replicate-models.js:66
CeReturn(out) ==
    /\ pc = "ce"
    /\ inflight # {}
    /\ Resolve
    /\ IF ArrayIsArray(out)
         THEN /\ analysis' = StringResult("costEffective", join(out.items, <<" ">>))
              /\ pc' = "respond"
         ELSE /\ pc' = "fallbackThrew"
              /\ UNCHANGED analysis
    /\ UNCHANGED <<reqVars, diskVars, frameFiles, i, stageVars, fallbacks,
                   response, otherVars>>

\* replicate-models.js:67-70: the error leaves analyzeSnowboardingVideoAdvanced
\* and the inner catch of the handler
CeThrow ==
    /\ pc = "ce"
    /\ inflight # {}
    /\ Reject
    /\ pc' = "fallbackThrew"
    /\ UNCHANGED <<reqVars, diskVars, frameFiles, i, stageVars, analysis,
                   fallbacks, response, otherVars>>

(* ---------------------------------------------------------------------- *)
(* The end of the upload handlers                                          *)
(* ---------------------------------------------------------------------- *)

IsSpace(piece) == piece \in {" ", "\t", "\n"}

\* String.prototype.trim
RECURSIVE trim(_)
trim(str) ==
    IF Len(str) = 0 THEN str
    ELSE IF IsSpace(str[1]) THEN trim(Tail(str))
    ELSE IF IsSpace(str[Len(str)]) THEN trim(SubSeq(str, 1, Len(str) - 1))
    ELSE str

\* str.replace(/\s+/g, ' ')
RECURSIVE CollapseSpaces(_)
CollapseSpaces(str) ==
    IF Len(str) = 0 THEN str
    ELSE IF IsSpace(str[1])
         THEN IF Len(str) > 1 /\ IsSpace(str[2])
              THEN CollapseSpaces(Tail(str))
              ELSE <<" ">> \o CollapseSpaces(Tail(str))
         ELSE <<str[1]>> \o CollapseSpaces(Tail(str))

\* index.js:180 cleanAnalysis
cleanAnalysis(text) ==
    [k \in 1..Len(text) |-> [text[k] EXCEPT !.text = trim(CollapseSpaces(@))]]

\* index.js:175, 180: analysis.analysis || analysis
AnalysisText(a) == IF "analysis" \in DOMAIN a THEN a.analysis ELSE a.str

\* handler-built templates without the drills template
HandlerPromptsWithoutDrills(a) ==
    [ strengths    |-> Template("uploadStrengths", cleanAnalysis(AnalysisText(a)), 1500),
      improvements |-> Template("uploadImprovements", cleanAnalysis(AnalysisText(a)), 1500) ]

\* index.js:193-197
HandlerPrompts(a) ==
    [ strengths    |-> Template("uploadStrengths", cleanAnalysis(AnalysisText(a)), 1500),
      improvements |-> Template("uploadImprovements", cleanAnalysis(AnalysisText(a)), 1500),
      drills       |-> Template("uploadDrills", cleanAnalysis(AnalysisText(a)), 1500) ]

\* a handler that passes on what the analysis returned and builds nothing
UploadDetailedPromptsPassedOn(a) ==
    IF "detailedPrompts" \in DOMAIN a THEN a.detailedPrompts ELSE NoValue
\* index.js:176-198 detailedPrompts of the response
UploadDetailedPrompts(a) ==
    IF "detailedPrompts" \in DOMAIN a THEN a.detailedPrompts ELSE HandlerPrompts(a)

\* index.js:200-209
UploadResponse(a, usePose) ==
    [ status |-> 200,
      success |-> TRUE,
      analysis |-> IF "detailedPrompts" \in DOMAIN a THEN AnalysisText(a)
                   ELSE Static("structuredAnalysis"),
      pipeline |-> IF "pipeline" \in DOMAIN a THEN a.pipeline
                   ELSE IF usePose THEN "pose-based" ELSE "image-based",
      poseVideoUrl |-> Null,
      technicalAnalysis |-> IF "technicalAnalysis" \in DOMAIN a THEN a.technicalAnalysis
                            ELSE AnalysisText(a),
      sceneDescription |-> IF "sceneDescription" \in DOMAIN a THEN a.sceneDescription
                           ELSE Static("Snowboarding technique analysis"),
      detailedPrompts |-> UploadDetailedPrompts(a),
      message |-> IF "message" \in DOMAIN a THEN a.message
                  ELSE "Video analyzed successfully" ]

\* a handler that reports the pipeline tag of the orchestrator's report
AnalyzePoseResponseWithReportTag(a) ==
    [ status |-> 200,
      success |-> TRUE,
      analysis |-> a.analysis,
      pipeline |-> a.pipeline,
      poseVideoUrl |-> a.poseVideoUrl,
      poseImages |-> IF "poseAnalyses" \in DOMAIN a THEN PoseImages(a.poseAnalyses)
                     ELSE <<>>,
      technicalAnalysis |-> a.technicalAnalysis,
      sceneDescription |-> a.sceneDescription,
      detailedPrompts |-> a.detailedPrompts,
      message |-> "Video analyzed using advanced pose estimation pipeline" ]
      @@ (IF "poseAnalyses" \in DOMAIN a THEN [poseAnalyses |-> a.poseAnalyses]
          ELSE <<>>)
\* index.js:452-466
AnalyzePoseResponse(a) ==
    [ status |-> 200,
      success |-> TRUE,
      analysis |-> a.analysis,
      pipeline |-> "pose-based-4stage",
      poseVideoUrl |-> a.poseVideoUrl,
      poseImages |-> IF "poseAnalyses" \in DOMAIN a THEN PoseImages(a.poseAnalyses)
                     ELSE <<>>,
      technicalAnalysis |-> a.technicalAnalysis,
      sceneDescription |-> a.sceneDescription,
      detailedPrompts |-> a.detailedPrompts,
      message |-> "Video analyzed using advanced pose estimation pipeline" ]
      @@ (IF "poseAnalyses" \in DOMAIN a THEN [poseAnalyses |-> a.poseAnalyses]
          ELSE <<>>)

\* index.js:169-172, 447-450: the video, the listed frames and the frame
\* directory are removed
CleanUp ==
    /\ videoOnDisk' = FALSE
    /\ framesOnDisk' = framesOnDisk \ SeqRange(frameFiles)
    /\ frameDirOnDisk' = FALSE

\* index.js:169-209: the analysis returned to POST /api/upload
RespondUpload ==
    /\ pc = "respond"
    /\ endpoint = "upload"
    /\ CleanUp
    /\ response' = UploadResponse(analysis, usePoseAnalysis)
    /\ pc' = "done"
    /\ UNCHANGED <<reqVars, frameFiles, i, stageVars, analysis, callVars,
                   fallbacks, otherVars>>

\* index.js:447-466: the analysis returned to POST /api/analyze-pose
RespondAnalyzePose ==
    /\ pc = "respond"
    /\ endpoint = "analyze-pose"
    /\ CleanUp
    /\ response' = AnalyzePoseResponse(analysis)
    /\ pc' = "done"
    /\ UNCHANGED <<reqVars, frameFiles, i, stageVars, analysis, callVars,
                   fallbacks, otherVars>>

\* index.js:211-218, 468-474: the outer catch of the handler; it is
\* reached by an error of the fallback analysis of /api/upload and by any
\* error of the analysis of /api/analyze-pose
HandlerCatch ==
    /\ pc \in {"primaryThrew", "fallbackThrew"}
    /\ (pc = "primaryThrew" => endpoint # "upload")
    /\ response' = [status |-> 500,
                    error |-> IF endpoint = "upload" THEN "Failed to process video"
                              ELSE "Failed to process video with pose analysis"]
    /\ pc' = "done"
    /\ UNCHANGED <<reqVars, diskVars, frameFiles, i, stageVars, analysis,
                   callVars, fallbacks, otherVars>>

(* ---------------------------------------------------------------------- *)
(* One request to an upload endpoint                                       *)
(* ---------------------------------------------------------------------- *)

Next ==
    \/ \E ep \in Endpoints, f \in FileKinds, pa \in FlagValues, pq \in FlagValues :
          Request(ep, f, pa, pq)
    \/ \E n \in 0..NumTimestamps : ExtractFramesEnd(n)
    \/ \E n \in 0..NumTimestamps : ExtractFramesError(n)
    \/ PoseCall
    \/ \E out \in PoseOutputs : PoseReturn(out)
    \/ PoseThrow
    \/ PoseEnd
    \/ TechCall
    \/ \E out \in TextOutputs : TechReturn(out)
    \/ TechThrow
    \/ TechEnd
    \/ SceneCall
    \/ \E out \in TextOutputs : SceneReturn(out)
    \/ SceneThrow
    \/ SceneEnd
    \/ ReportCall
    \/ \E out \in TextOutputs : ReportReturn(out)
    \/ ReportThrow
    \/ PoseBasedCatch
    \/ MfCall
    \/ \E out \in TextOutputs : MfReturn(out)
    \/ MfThrow
    \/ MfSynthCall
    \/ \E out \in TextOutputs : MfSynthReturn(out)
    \/ UploadCatch
    \/ AdvCall
    \/ \E out \in TextOutputs : AdvReturn(out)
    \/ AdvThrow
    \/ CeCall
    \/ \E out \in TextOutputs : CeReturn(out)
    \/ CeThrow
    \/ RespondUpload
    \/ RespondAnalyzePose
    \/ HandlerCatch

Spec == Init /\ [][Next]_vars

(* ---------------------------------------------------------------------- *)
(* POST /api/chat (index.js:222-361)                                       *)
(* A question is the sequence of its characters                            *)
(* ---------------------------------------------------------------------- *)

\* String.prototype.toLowerCase, on the letters the questions use
LowerOf(c) ==
    CASE c = "A" -> "a" [] c = "B" -> "b" [] c = "D" -> "d" [] c = "E" -> "e"
      [] c = "G" -> "g" [] c = "H" -> "h" [] c = "I" -> "i" [] c = "K" -> "k"
      [] c = "L" -> "l" [] c = "M" -> "m" [] c = "N" -> "n" [] c = "O" -> "o"
      [] c = "P" -> "p" [] c = "R" -> "r" [] c = "S" -> "s" [] c = "T" -> "t"
      [] c = "U" -> "u" [] c = "V" -> "v" [] c = "W" -> "w" [] c = "Y" -> "y"
      [] OTHER -> c

toLowerCase(str) == [k \in 1..Len(str) |-> LowerOf(str[k])]

\* String.prototype.includes
includes(str, sub) ==
    \E k \in 1..(Len(str) - Len(sub) + 1) : SubSeq(str, k, k + Len(sub) - 1) = sub

\* a strengths branch that does not look for "good"
StrengthsKeywordsWithoutGood == { <<"s", "t", "r", "e", "n", "g", "t", "h">>,
                                  <<"p", "o", "s", "i", "t", "i", "v", "e">> }
\* index.js:236 keywords of the strengths branch
StrengthsKeywords == { <<"s", "t", "r", "e", "n", "g", "t", "h">>,
                       <<"g", "o", "o", "d">>,
                       <<"p", "o", "s", "i", "t", "i", "v", "e">> }
\* index.js:239 keywords of the improvements branch
ImprovementsKeywords == { <<"i", "m", "p", "r", "o", "v", "e">>,
                          <<"p", "r", "o", "b", "l", "e", "m">>,
                          <<"i", "s", "s", "u", "e">>,
                          <<"b", "e", "t", "t", "e", "r">> }
\* index.js:242 keywords of the drills branch
DrillsKeywords == { <<"d", "r", "i", "l", "l">>,
                    <<"e", "x", "e", "r", "c", "i", "s", "e">>,
                    <<"p", "r", "a", "c", "t", "i", "c", "e">>,
                    <<"w", "o", "r", "k", " ", "o", "n">> }

\* question.toLowerCase().includes(k) for some k of a keyword set
Mentions(q, keywords) == \E k \in keywords : includes(toLowerCase(q), k)

\* a chain that checks the improvements keywords first
RouteImprovementsFirst(q) ==
    IF Mentions(q, ImprovementsKeywords) THEN "improvements"
    ELSE IF Mentions(q, StrengthsKeywords) THEN "strengths"
    ELSE IF Mentions(q, DrillsKeywords) THEN "drills"
    ELSE "generic"

\* index.js:236-258 the branch of the if / else if chain a question takes
Route(q) ==
    IF Mentions(q, StrengthsKeywords) THEN "strengths"
    ELSE IF Mentions(q, ImprovementsKeywords) THEN "improvements"
    ELSE IF Mentions(q, DrillsKeywords) THEN "drills"
    ELSE "generic"

\* index.js:234, 238, 241, 244 sectionType of a branch
SectionTypeOf(branch) ==
    CASE branch = "strengths"    -> "Key Strengths"
      [] branch = "improvements" -> "Main Areas for Improvement"
      [] branch = "drills"       -> "Specific Drills and Exercises"
      [] OTHER                   -> ""

\* the words the questions of the model are made of
Words == { <<"S", "t", "r", "e", "n", "g", "t", "h", "s">>,
           <<"G", "O", "O", "D">>,
           <<"i", "m", "p", "r", "o", "v", "e">>,
           <<"D", "r", "i", "l", "l", "s">>,
           <<"w", "o", "r", "k">>,
           <<"o", "n">>,
           <<"t", "u", "r", "n", "s">> }

\* "What are my strengths?"
WhatAreMyStrengths == <<"W", "h", "a", "t", " ", "a", "r", "e", " ", "m", "y", " ", "s", "t", "r", "e", "n", "g", "t", "h", "s", "?">>

RECURSIVE QuestionsOf(_)
\* the questions of at most n words, separated by single spaces
QuestionsOf(n) ==
    IF n = 0 THEN { <<>> }
    ELSE LET shorter == QuestionsOf(n - 1)
         IN  shorter \cup { IF q = <<>> THEN w ELSE q \o <<" ">> \o w :
                            q \in shorter, w \in Words }

Questions == QuestionsOf(MaxWords) \cup { WhatAreMyStrengths }

\* what the client sends as analysisData: nothing, a report, or a report
\* that lacks detailedPrompts
AnalysisDatas ==
    { NoValue,
      [ type |-> "object",
        detailedPrompts |-> FallbackPrompts,
        technicalAnalysis |-> fallbackAnalysis,
        sceneDescription |-> Static("Snowboarding technique analysis") ],
      [ type |-> "object",
        technicalAnalysis |-> fallbackAnalysis,
        sceneDescription |-> Static("Snowboarding technique analysis") ] }

\* index.js:247-257 the prompt of the generic branch
GenericPrompt(q, ad) ==
    [ template |-> "generic", question |-> q,
      embeds |-> ad.technicalAnalysis, cut |-> 1500,
      embedsScene |-> ad.sceneDescription, cutScene |-> 800 ]

\* index.js:236-258 the prompt of a branch
PromptOf(branch, q, ad) ==
    IF branch = "generic" THEN GenericPrompt(q, ad)
    ELSE ad.detailedPrompts[branch]

\* the property reads of a branch succeed (otherwise a TypeError is thrown)
CanBuildPrompt(branch, ad) ==
    IF branch = "generic"
    THEN {"technicalAnalysis", "sceneDescription"} \subseteq DOMAIN ad
    ELSE "detailedPrompts" \in DOMAIN ad

\* index.js:223-268: the request up to `await replicate.run`
ChatRequest(q, ad) ==
    /\ chatPc = "idle"
    /\ question' = q
    /\ analysisData' = ad
    /\ IF q = <<>> \/ ad.type = "undefined"
         THEN /\ chatResponse' = [status |-> 400,
                                  error |-> "Question and analysis data are required"]
              /\ chatPc' = "done"
              /\ UNCHANGED <<prompt, sectionType>>
         ELSE IF ~CanBuildPrompt(Route(q), ad)
         THEN /\ chatResponse' = [status |-> 500,
                                  error |-> "Failed to process chat question"]
              /\ chatPc' = "done"
              /\ UNCHANGED <<prompt, sectionType>>
         ELSE /\ prompt' = PromptOf(Route(q), q, ad)
              /\ sectionType' = SectionTypeOf(Route(q))
              /\ chatPc' = "awaiting"
              /\ UNCHANGED chatResponse
    /\ UNCHANGED <<serverVars, restVars>>

\* index.js:270-352
ChatReturn(out) ==
    /\ chatPc = "awaiting"
    /\ chatResponse' = [ status |-> 200,
                         success |-> TRUE,
                         response |-> << Section("cleanText(responseText)", 0, TextOf(out)) >>,
                         sectionType |-> sectionType,
                         message |-> "Response generated successfully" ]
    /\ chatPc' = "done"
    /\ UNCHANGED <<question, analysisData, prompt, sectionType, serverVars, restVars>>

\* index.js:354-360
ChatThrow ==
    /\ chatPc = "awaiting"
    /\ chatResponse' = [status |-> 500, error |-> "Failed to process chat question"]
    /\ chatPc' = "done"
    /\ UNCHANGED <<question, analysisData, prompt, sectionType, serverVars, restVars>>

NextChat ==
    \/ \E q \in Questions, ad \in AnalysisDatas : ChatRequest(q, ad)
    \/ \E out \in TextOutputs : ChatReturn(out)
    \/ ChatThrow

SpecChat == Init /\ [][NextChat]_vars

(* ---------------------------------------------------------------------- *)
(* analyzeSnowboardingVideoPremium (replicate-models.js:74-129), called    *)
(* with a list of frame paths                                              *)
(* ---------------------------------------------------------------------- *)

\* the function is called with at most this many frame paths
MaxPremiumFrames == 4

Pending == [state |-> "pending"]
Rejected == [state |-> "rejected"]
Fulfilled(value) == [state |-> "fulfilled", value |-> value]

\* replicate-models.js:98 `Frame ${index + 1}: ${output.join(' ')}`
FrameAnalysis(index, out) == Section("Frame", index + 1, join(out.items, <<" ">>))

\* a Promise.all whose values come in the order the promises settled
PromiseAllInCompletionOrder(promises) ==
    [k \in 1..Len(promises) |-> At(promises, At(premOrder', k - 1)).value]

\* replicate-models.js:101 the value of Promise.all: the values of the
\* promises in the order of the array
PromiseAll(promises) == [k \in 1..Len(promises) |-> promises[k].value]

AllFulfilled(promises) == \A k \in 1..Len(promises) : promises[k].state = "fulfilled"

\* replicate-models.js:101-122: Promise.all resolved, the synthesis call is issued
PremiumSynthesize(promises) ==
    /\ premAnalyses' = PromiseAll(promises)
    /\ premCalls' = Append(premCalls, Call("premiumSynth", 0, "finalOutput"))
    /\ premPc' = "synth"
    /\ UNCHANGED premResult

\* replicate-models.js:125-128
PremiumCatch ==
    /\ premPc' = "threw"
    /\ premResult' = [type |-> "error", message |-> "Failed to analyze video"]

\* replicate-models.js:77-101: the map callback runs for every frame up to
\* its await, so every per-frame call is issued before the function yields
PremiumStart(n) ==
    /\ premPc = "idle"
    /\ premFramePaths' = [k \in 1..n |-> k]
    /\ premPromises' = [k \in 1..n |-> Pending]
    /\ premOrder' = <<>>
    /\ IF n = 0
         THEN PremiumSynthesize(<<>>)
         ELSE /\ premCalls' = [k \in 1..n |-> Call("premium", k, "frameAnalysis")]
              /\ premPc' = "all"
              /\ UNCHANGED <<premAnalyses, premResult>>
    /\ UNCHANGED <<nonPremiumVars>>

\* replicate-models.js:81-98: the call of frame index k returned; a string
\* output has no join, which rejects the promise of the frame
PremiumFrameReturn(k, out) ==
    /\ InRange(premPromises, k)
    /\ At(premPromises, k) = Pending
    /\ premOrder' = Append(premOrder, k)
    /\ LET settled == IF ArrayIsArray(out) THEN Fulfilled(FrameAnalysis(k, out))
                                            ELSE Rejected
           promises == [premPromises EXCEPT ![k + 1] = settled]
       IN  /\ premPromises' = promises
           /\ IF premPc = "all" /\ settled = Rejected
                THEN PremiumCatch /\ UNCHANGED <<premCalls, premAnalyses>>
              ELSE IF premPc = "all" /\ AllFulfilled(promises)
                THEN PremiumSynthesize(promises)
              ELSE UNCHANGED <<premPc, premCalls, premAnalyses, premResult>>
    /\ UNCHANGED <<premFramePaths, nonPremiumVars>>

\* replicate-models.js:81: the call of frame index k failed; the first
\* rejection rejects Promise.all, the other calls stay in flight
PremiumFrameThrow(k) ==
    /\ InRange(premPromises, k)
    /\ At(premPromises, k) = Pending
    /\ premOrder' = Append(premOrder, k)
    /\ premPromises' = [premPromises EXCEPT ![k + 1] = Rejected]
    /\ IF premPc = "all"
         THEN PremiumCatch
         ELSE UNCHANGED <<premPc, premResult>>
    /\ UNCHANGED <<premFramePaths, premCalls, premAnalyses, nonPremiumVars>>

\* replicate-models.js:104-124
PremiumSynthReturn(out) ==
    /\ premPc = "synth"
    /\ IF ArrayIsArray(out)
         THEN /\ premPc' = "returned"
              /\ premResult' = [type |-> "string",
                                str |-> << Section("finalOutput", 0, join(out.items, <<" ">>)) >>]
         ELSE PremiumCatch
    /\ UNCHANGED <<premFramePaths, premCalls, premPromises, premOrder,
                   premAnalyses, nonPremiumVars>>

\* replicate-models.js:104, 125-128
PremiumSynthThrow ==
    /\ premPc = "synth"
    /\ PremiumCatch
    /\ UNCHANGED <<premFramePaths, premCalls, premPromises, premOrder,
                   premAnalyses, nonPremiumVars>>

NextPremium ==
    \/ \E n \in 0..MaxPremiumFrames : PremiumStart(n)
    \/ \E k \in 0..(MaxPremiumFrames - 1), out \in TextOutputs : PremiumFrameReturn(k, out)
    \/ \E k \in 0..(MaxPremiumFrames - 1) : PremiumFrameThrow(k)
    \/ \E out \in TextOutputs : PremiumSynthReturn(out)
    \/ PremiumSynthThrow

SpecPremium == Init /\ [][NextPremium]_vars
(* ---------------------------------------------------------------------- *)
(* cleanText (index.js:273-341, the same text as part_002:351-419)         *)
(* A text is the sequence of its pieces: a piece is a run of word          *)
(* characters that the patterns treat as a unit, or one other character    *)
(* ---------------------------------------------------------------------- *)

\* a generated text has at most this many pieces
MaxTextLen == 3

\* the characters of the punctuation rules and the white space
NonWord == {" ", "\t", "\n", "/", ":", "-", ",", ".", "(", ")", "*", "'"}

\* \b holds between position k and k + 1 of str next to a word piece
BoundaryBefore(str, k) == k = 1 \/ str[k - 1] \in NonWord
BoundaryAfter(str, k) == k = Len(str) \/ str[k + 1] \in NonWord

\* the first position from p on that holds no white space
SkipSpaces(str, p) ==
    CHOOSE q \in p..(Len(str) + 1) :
        /\ \A j \in p..(q - 1) : IsSpace(str[j])
        /\ q = Len(str) + 1 \/ ~IsSpace(str[q])

\* index.js:277-328 the word repairs in the order of the chain; the parts
\* of a pattern are separated by \s+
WordRepairs ==
    << 
       [parts |-> <<"Ass", "ess", "ment">>, whole |-> "Assessment"],
       [parts |-> <<"Over", "all">>, whole |-> "Overall"],
       [parts |-> <<"Str", "ength", "s">>, whole |-> "Strengths"],
       [parts |-> <<"Are", "as">>, whole |-> "Areas"],
       [parts |-> <<"Im", "prov", "e", "ment">>, whole |-> "Improvement"],
       [parts |-> <<"Dr", "ills">>, whole |-> "Drills"],
       [parts |-> <<"Ex", "er", "cis", "es">>, whole |-> "Exercises"],
       [parts |-> <<"Pract", "ice">>, whole |-> "Practice"],
       [parts |-> <<"snow", "board", "er">>, whole |-> "snowboarder"],
       [parts |-> <<"snow", "board">>, whole |-> "snowboard"],
       [parts |-> <<"demonstr", "ates">>, whole |-> "demonstrates"],
       [parts |-> <<"post", "ure">>, whole |-> "posture"],
       [parts |-> <<"kne", "es">>, whole |-> "knees"],
       [parts |-> <<"an", "k", "les">>, whole |-> "ankles"],
       [parts |-> <<"position", "ing">>, whole |-> "positioning"],
       [parts |-> <<"relax", "ed">>, whole |-> "relaxed"],
       [parts |-> <<"adjust", "ed">>, whole |-> "adjusted"],
       [parts |-> <<"incorpor", "ating">>, whole |-> "incorporating"],
       [parts |-> <<"enh", "ance">>, whole |-> "enhance"],
       [parts |-> <<"init", "iation">>, whole |-> "initiation"],
       [parts |-> <<"B", "ased">>, whole |-> "Based"],
       [parts |-> <<"snowboarder", "'", "s">>, whole |-> "snowboarder's"],
       [parts |-> <<"App", "ropri", "ate">>, whole |-> "Appropriate"],
       [parts |-> <<"Center", "ed">>, whole |-> "Centered"],
       [parts |-> <<"Im", "prov", "e", "ment">>, whole |-> "Improvement"],
       [parts |-> <<"Spec", "ific">>, whole |-> "Specific"],
       [parts |-> <<"adjust", "ing">>, whole |-> "adjusting"],
       [parts |-> <<"F", "ocus">>, whole |-> "Focus"],
       [parts |-> <<"maintain", "ing">>, whole |-> "maintaining"],
       [parts |-> <<"navig", "ating">>, whole |-> "navigating"],
       [parts |-> <<"terra", "ins">>, whole |-> "terrains"],
       [parts |-> <<"W", "ould">>, whole |-> "Would"],
       [parts |-> <<"1", "0">>, whole |-> "10"],
       [parts |-> <<"bal", "anced">>, whole |-> "balanced"],
       [parts |-> <<"kne", "e">>, whole |-> "knee"],
       [parts |-> <<"an", "k", "le">>, whole |-> "ankle"],
       [parts |-> <<"snowboard", "ing">>, whole |-> "snowboarding"],
       [parts |-> <<"sp", "ine">>, whole |-> "spine"],
       [parts |-> <<"h", "ips">>, whole |-> "hips"],
       [parts |-> <<"el", "b", "ows">>, whole |-> "elbows"],
       [parts |-> <<"Ne", "ut", "ral">>, whole |-> "Neutral"],
       [parts |-> <<"Pro", "per">>, whole |-> "Proper"],
       [parts |-> <<"We", "ight">>, whole |-> "Weight"],
       [parts |-> <<"sh", "ifting">>, whole |-> "shifting"],
       [parts |-> <<"j", "umps">>, whole |-> "jumps"],
       [parts |-> <<"exer", "cis", "es">>, whole |-> "exercises"],
       [parts |-> <<"squ", "ats">>, whole |-> "squats"],
       [parts |-> <<"bo", "ards">>, whole |-> "boards"],
       [parts |-> <<"In", "cor", "por", "ate">>, whole |-> "Incorporate"] >>

RECURSIVE MatchEnd(_, _, _, _)
\* the position after a match of parts[j..] that starts at p, 0 if none
MatchEnd(str, p, parts, j) ==
    IF p > Len(str) \/ str[p] # parts[j] THEN 0
    ELSE IF j = Len(parts)
         THEN IF BoundaryAfter(str, p) THEN p + 1 ELSE 0
    ELSE LET q == SkipSpaces(str, p + 1)
         IN  IF q = p + 1 THEN 0 ELSE MatchEnd(str, q, parts, j + 1)

RECURSIVE RepairFrom(_, _, _)
\* str.replace(/\bpart\s+part...\b/g, whole) from position p on
RepairFrom(str, p, rule) ==
    IF p > Len(str) THEN <<>>
    ELSE LET e == IF BoundaryBefore(str, p) THEN MatchEnd(str, p, rule.parts, 1) ELSE 0
         IN  IF e # 0 THEN <<rule.whole>> \o RepairFrom(str, e, rule)
             ELSE <<str[p]>> \o RepairFrom(str, p + 1, rule)

RECURSIVE RepairWords(_, _)
\* index.js:277-328 the repairs applied one after the other, from rule k on;
\* a pattern whose first part does not occur in str has no match
RepairWords(str, k) ==
    IF k > Len(WordRepairs) THEN str
    ELSE IF \E p \in 1..Len(str) : str[p] = WordRepairs[k].parts[1]
         THEN RepairWords(RepairFrom(str, 1, WordRepairs[k]), k + 1)
         ELSE RepairWords(str, k + 1)

RECURSIVE CollapseBlanks(_)
\* index.js:330 str.replace(/[ \t]+/g, ' ')
CollapseBlanks(str) ==
    IF Len(str) = 0 THEN str
    ELSE IF str[1] \in {" ", "\t"}
         THEN IF Len(str) > 1 /\ str[2] \in {" ", "\t"}
              THEN CollapseBlanks(Tail(str))
              ELSE <<" ">> \o CollapseBlanks(Tail(str))
         ELSE <<str[1]>> \o CollapseBlanks(Tail(str))

RECURSIVE AroundFrom(_, _, _, _)
\* index.js:331-338 str.replace(/\s*c\s*/g, rep) from position p on
AroundFrom(str, p, c, rep) ==
    IF p > Len(str) THEN <<>>
    ELSE LET q == SkipSpaces(str, p)
         IN  IF q <= Len(str) /\ str[q] = c
             THEN rep \o AroundFrom(str, SkipSpaces(str, q + 1), c, rep)
             ELSE <<str[p]>> \o AroundFrom(str, p + 1, c, rep)

Around(str, c, rep) == AroundFrom(str, 1, c, rep)

RECURSIVE AfterLineBreak(_)
\* index.js:339 str.replace(/\n[ \t]+/g, '\n')
AfterLineBreak(str) ==
    IF Len(str) = 0 THEN str
    ELSE IF str[1] = "\n" /\ Len(str) > 1 /\ str[2] \in {" ", "\t"}
         THEN AfterLineBreak(<<"\n">> \o SubSeq(str, 3, Len(str)))
         ELSE <<str[1]>> \o AfterLineBreak(Tail(str))

\* index.js:338 str.replace(/\s*\*\s*/g, '**')
Asterisks(str) == Around(str, "*", <<"*", "*">>)

\* index.js:273-341
cleanText(text) ==
    IF text = <<>> THEN text
    ELSE LET t1 == RepairWords(text, 1)
             t2 == CollapseBlanks(t1)
             t3 == Around(t2, "/", <<"/">>)
             t4 == Around(t3, ":", <<":", " ">>)
             t5 == Around(t4, "-", <<"-">>)
             t6 == Around(t5, ",", <<",", " ">>)
             t7 == Around(t6, ".", <<".", " ">>)
             t8 == Around(t7, "(", <<"(">>)
             t9 == Around(t8, ")", <<")">>)
             t10 == Asterisks(t9)
             t11 == AfterLineBreak(t10)
         IN  trim(t11)

\* the pieces the generated texts are made of
Pieces == {"turn", "Over", "all", " ", "\n", "*", ".", ":", ",", "-"}

RECURSIVE TextsOf(_)
\* the texts of at most n pieces
TextsOf(n) ==
    IF n = 0 THEN { <<>> }
    ELSE LET shorter == TextsOf(n - 1)
         IN  shorter \cup { Append(t, c) : t \in shorter, c \in Pieces }

Texts == TextsOf(MaxTextLen)

\* a text a model returned
InitClean ==
    /\ ServerInit /\ ChatInit /\ PremiumInit /\ ClientInit /\ TwoInit
    /\ textPc = "raw"
    /\ textIn \in Texts
    /\ textOnce = <<>>
    /\ textTwice = <<>>

\* index.js:343 cleanText(responseText), part_002:421-422 cleanText(briefText)
CleanOnce ==
    /\ textPc = "raw"
    /\ textOnce' = cleanText(textIn)
    /\ textPc' = "once"
    /\ UNCHANGED <<textIn, textTwice, nonCleanVars>>

\* cleanText applied to a text it has already cleaned
CleanAgain ==
    /\ textPc = "once"
    /\ textTwice' = cleanText(textOnce)
    /\ textPc' = "twice"
    /\ UNCHANGED <<textIn, textOnce, nonCleanVars>>

NextClean ==
    \/ CleanOnce
    \/ CleanAgain

SpecClean == InitClean /\ [][NextClean]_vars
(* ---------------------------------------------------------------------- *)
(* The browser: App (App.tsx), VideoUpload (part_000:372-536) and          *)
(* ChatInterface (ChatInterface.tsx)                                       *)
(* ---------------------------------------------------------------------- *)

\* a session starts at most this many video analyses
MaxUploads == 2
\* a session sends at most this many chat messages
MaxMessages == 2

\* the text of a turn, a sequence of pieces (<<"undefined">> for a reply
\* without an analysis field), and, for an analysis or a reply, the number
\* of the upload or message it answers
Content(text, of) == [text |-> text, of |-> of]
Turn(role, content) == [role |-> role, content |-> content]

\* setChatHistory(prev => [turn, ...prev])
PrependTurn(history, turn) == <<turn>> \o history

\* App.tsx:49-52, 270-273, 294-297, 332-335: setChatHistory(prev => [...prev, turn])
AppendTurn(history, turn) == Append(history, turn)

\* the files a user picks or drops
Files == { [name |-> "run.mp4", type |-> "video/mp4", tooLarge |-> FALSE],
           [name |-> "notes.txt", type |-> "text/plain", tooLarge |-> FALSE],
           [name |-> "long.mov", type |-> "video/quicktime", tooLarge |-> TRUE] }

\* part_000:417 file.type.startsWith('video/')
IsVideoType(f) == f.type \in {"video/mp4", "video/quicktime"}

\* what the text field of the chat holds when the user sends
Inputs == { <<>>, <<" ">>, <<" ", "drills", " ">> }

\* ChatInterface.tsx:54-59, the first of the four chips
QuickQuestions == { <<"How can I improve my balance?">> }

\* what the fetch of an analysis resolves to: the report of index.js, the
\* reply of api/analyze-pose.ts, an error body, or nothing that parses
AnalysisReplies ==
    { [type |-> "object", success |-> TRUE, analysis |-> <<"analysis">>,
       detailedPrompts |-> [strengths |-> "s", improvements |-> "i", drills |-> "d"],
       technicalAnalysis |-> "technical", sceneDescription |-> "scene"],
      [type |-> "object", success |-> TRUE, message |-> "Video received successfully"],
      [type |-> "object", error |-> "Video analysis failed"],
      [type |-> "threw"] }

\* what the fetch of /api/chat resolves to
ChatReplies ==
    { [type |-> "object", success |-> TRUE, response |-> <<"reply">>],
      [type |-> "object", error |-> "Failed to process chat question"],
      [type |-> "threw"] }

Sorry == <<"Sorry, I had trouble processing your question. Please try again.">>
PleaseUpload == <<"Please upload a video first to get personalized coaching advice!">>

\* App.tsx:31-42, 243-259: handleVideoAnalysis up to `await fetch`
handleVideoAnalysis(f) ==
    /\ started < MaxUploads
    /\ started' = started + 1
    /\ isAnalyzing' = TRUE
    /\ analysisResult' = [type |-> "null"]
    /\ IF appVariant = 2
         THEN /\ chatHistory' = <<>>
              /\ uploadedVideo' = [type |-> "file", name |-> f.name]
              /\ fetches' = fetches \cup {[kind |-> "analysis", id |-> started + 1,
                                           url |-> "/api/analyze-pose"]}
         ELSE /\ UNCHANGED <<chatHistory, uploadedVideo>>
              /\ fetches' = fetches \cup {[kind |-> "analysis", id |-> started + 1,
                                           url |-> "/api/upload"]}
    /\ UNCHANGED <<appVariant, sent>>

\* part_000:413-429
handleFile(f) ==
    IF ~IsVideoType(f)
    THEN /\ uploadError' = [type |-> "string", str |-> "Please select a video file"]
         /\ UNCHANGED <<appVariant, chatHistory, isAnalyzing, analysisResult,
                        uploadedVideo, fetches, started, sent>>
    ELSE IF f.tooLarge
    THEN /\ uploadError' = [type |-> "string", str |-> "File size must be less than 20MB"]
         /\ UNCHANGED <<appVariant, chatHistory, isAnalyzing, analysisResult,
                        uploadedVideo, fetches, started, sent>>
    ELSE /\ uploadError' = [type |-> "null"]
         /\ handleVideoAnalysis(f)

\* part_000:431-435, 461-468: the file input, disabled while isAnalyzing
handleFileInput(f) ==
    /\ ~isAnalyzing
    /\ handleFile(f)
    /\ UNCHANGED nonClientVars

\* part_000:403-411: a file dropped on the upload area
handleDrop(f) ==
    /\ handleFile(f)
    /\ UNCHANGED nonClientVars

\* App.tsx:44-65, 261-286: the fetch of an analysis is answered
AnalysisReply(req, reply) ==
    /\ req \in fetches
    /\ req.kind = "analysis"
    /\ fetches' = fetches \ {req}
    /\ IF reply.type = "object" /\ "success" \in DOMAIN reply
         THEN /\ analysisResult' = reply
              /\ chatHistory' =
                    AppendTurn(chatHistory,
                               Turn("assistant",
                                    Content(IF "analysis" \in DOMAIN reply
                                            THEN reply.analysis ELSE <<"undefined">>, req.id)))
         ELSE /\ analysisResult' =
                    [type |-> "object", success |-> FALSE, analysis |-> "",
                     message |-> IF reply.type = "object" THEN reply.error
                                 ELSE "Failed to analyze video"]
              /\ UNCHANGED chatHistory
    /\ isAnalyzing' = FALSE
    /\ UNCHANGED <<appVariant, uploadedVideo, uploadError, started, sent, nonClientVars>>

\* App.tsx:312
HasDetailedPrompts(result) ==
    /\ result.type = "object"
    /\ "detailedPrompts" \in DOMAIN result
    /\ DOMAIN result.detailedPrompts # {}

\* App.tsx:68-73, 289-327, 359-371: handleChatMessage up to `await fetch`
handleChatMessage(message) ==
    /\ sent < MaxMessages
    /\ sent' = sent + 1
    /\ LET asked == AppendTurn(chatHistory, Turn("user", Content(message, 0)))
       IN  IF appVariant = 1
           THEN /\ chatHistory' = asked
                /\ UNCHANGED fetches
           ELSE IF HasDetailedPrompts(analysisResult)
           THEN /\ chatHistory' = asked
                /\ fetches' = fetches \cup {[kind |-> "chat", id |-> sent + 1,
                                             url |-> "/api/chat"]}
           ELSE /\ chatHistory' =
                      AppendTurn(asked, Turn("assistant", Content(PleaseUpload, sent + 1)))
                /\ UNCHANGED fetches
    /\ UNCHANGED <<appVariant, isAnalyzing, analysisResult, uploadedVideo,
                   uploadError, started, nonClientVars>>

\* ChatInterface.tsx:40-45, 47-52, 196-199: the send button or the Enter key
handleSendMessage(input) ==
    /\ trim(input) # <<>>
    /\ ~isAnalyzing
    /\ handleChatMessage(trim(input))

\* ChatInterface.tsx:73-93: a chip of the welcome box, shown while the
\* chat history is empty
QuickQuestion(q) ==
    /\ chatHistory = <<>>
    /\ handleChatMessage(q)

\* a handler that shows nothing when the request failed
ChatReplyDropsFailure(req, reply) ==
    /\ req \in fetches
    /\ req.kind = "chat"
    /\ fetches' = fetches \ {req}
    /\ chatHistory' =
          IF reply.type = "object" /\ "success" \in DOMAIN reply
          THEN AppendTurn(chatHistory, Turn("assistant", Content(reply.response, req.id)))
          ELSE chatHistory
    /\ UNCHANGED <<appVariant, isAnalyzing, analysisResult, uploadedVideo,
                   uploadError, started, sent, nonClientVars>>
\* App.tsx:329-358: the fetch of /api/chat is answered
ChatReply(req, reply) ==
    /\ req \in fetches
    /\ req.kind = "chat"
    /\ fetches' = fetches \ {req}
    /\ chatHistory' =
          AppendTurn(chatHistory,
                     Turn("assistant",
                          Content(IF reply.type = "object" /\ "success" \in DOMAIN reply
                                  THEN reply.response ELSE Sorry, req.id)))
    /\ UNCHANGED <<appVariant, isAnalyzing, analysisResult, uploadedVideo,
                   uploadError, started, sent, nonClientVars>>

\* either App of App.tsx is mounted
InitClient ==
    /\ ServerInit /\ ChatInit /\ PremiumInit /\ CleanInit /\ TwoInit
    /\ appVariant \in {1, 2}
    /\ ClientState

NextClient ==
    \/ \E f \in Files : handleFileInput(f)
    \/ \E f \in Files : handleDrop(f)
    \/ \E req \in fetches, reply \in AnalysisReplies : AnalysisReply(req, reply)
    \/ \E input \in Inputs : handleSendMessage(input)
    \/ \E q \in QuickQuestions : QuickQuestion(q)
    \/ \E req \in fetches, reply \in ChatReplies : ChatReply(req, reply)

SpecClient == InitClient /\ [][NextClient]_vars
(* ---------------------------------------------------------------------- *)
(* Two upload requests in flight at the same time (index.js:62-74,         *)
(* 92-114, 124-219): what each writes to, reads from and deletes on disk   *)
(* ---------------------------------------------------------------------- *)

\* uuidv4() is drawn from this many values
MaxUuids == 3
\* ffmpeg writes at most this many frames for a request of this specification
MaxTwoFrames == 2

Uuids == 1..MaxUuids
OriginalNames == {"run.mp4", "clip.mov"}

\* a stored name that is the original name of the upload
filenameWithoutUuid(uuid, originalname) == <<0, originalname>>

\* index.js:71 `${uuidv4()}-${file.originalname}`
filename(uuid, originalname) == <<uuid, originalname>>

\* index.js:137-140 readdirSync(frameDir) on the frame files fr, the .png
\* files sorted
readdirSync(fr, dir) == SortedSeq({f[2] : f \in {g \in fr : g[1] = dir}})

\* index.js:62-74, 124-134, 94-96: multer stores the video under a new
\* name, extractFrames creates the frame directory and starts ffmpeg
TwoRequest(r, uuid, originalname) ==
    /\ twoPc[r] = "idle"
    /\ uuid \notin uuids
    /\ uuids' = uuids \cup {uuid}
    /\ twoName' = [twoName EXCEPT ![r] = filename(uuid, originalname)]
    /\ uploads' = uploads \cup {filename(uuid, originalname)}
    /\ frameDirs' = frameDirs \cup {filename(uuid, originalname)}
    /\ twoPc' = [twoPc EXCEPT ![r] = "extract"]
    /\ UNCHANGED <<twoFrameFiles, twoResponse, frames, nonTwoVars>>

\* index.js:98-108, 137-140: ffmpeg wrote n frames, the handler lists the
\* frame directory
TwoExtractEnd(r, n) ==
    /\ twoPc[r] = "extract"
    /\ LET written == frames \cup {<<twoName[r], k>> : k \in 1..n}
       IN  /\ frames' = written
           /\ twoFrameFiles' =
                 [twoFrameFiles EXCEPT ![r] = readdirSync(written, twoName[r])]
    /\ twoPc' = [twoPc EXCEPT ![r] = "analyse"]
    /\ UNCHANGED <<twoName, twoResponse, uploads, frameDirs, uuids, nonTwoVars>>

\* index.js:109-112, 211-218
TwoExtractError(r) ==
    /\ twoPc[r] = "extract"
    /\ twoPc' = [twoPc EXCEPT ![r] = "done"]
    /\ twoResponse' = [twoResponse EXCEPT
                         ![r] = [status |-> 500, details |-> "ffmpeg exited with an error"]]
    /\ UNCHANGED <<twoName, twoFrameFiles, uploads, frameDirs, frames, uuids, nonTwoVars>>

\* index.js:117-120, 149-167: the analysis reads the frame files it is
\* given (imageToBase64) and returns, or throws when its last fallback fails
\* or a frame file is gone
TwoAnalysisThrows(r) ==
    /\ twoPc[r] = "analyse"
    /\ twoPc' = [twoPc EXCEPT ![r] = "done"]
    /\ twoResponse' =
          [twoResponse EXCEPT
             ![r] = [status |-> 500,
                     details |-> IF \A k \in SeqRange(twoFrameFiles[r]) :
                                        <<twoName[r], k>> \in frames
                                 THEN "Failed to analyze video"
                                 ELSE "ENOENT: no such file or directory"]]
    /\ UNCHANGED <<twoName, twoFrameFiles, uploads, frameDirs, frames, uuids, nonTwoVars>>

\* index.js:169-209: the analysis returned; the handler unlinks the video
\* and the listed frames and removes the frame directory; unlinkSync of a
\* missing file and rmdirSync of a directory that is not empty throw
TwoCleanUp(r) ==
    /\ twoPc[r] = "analyse"
    /\ \A k \in SeqRange(twoFrameFiles[r]) : <<twoName[r], k>> \in frames
    /\ twoPc' = [twoPc EXCEPT ![r] = "done"]
    /\ LET listed == {<<twoName[r], k>> : k \in SeqRange(twoFrameFiles[r])}
       IN  IF twoName[r] \notin uploads
           THEN /\ twoResponse' = [twoResponse EXCEPT
                                     ![r] = [status |-> 500,
                                             details |-> "ENOENT: no such file or directory"]]
                /\ UNCHANGED <<uploads, frames, frameDirs>>
           ELSE /\ uploads' = uploads \ {twoName[r]}
                /\ frames' = frames \ listed
                /\ IF \E f \in frames \ listed : f[1] = twoName[r]
                     THEN /\ twoResponse' = [twoResponse EXCEPT
                                               ![r] = [status |-> 500,
                                                       details |-> "ENOTEMPTY: directory not empty"]]
                          /\ UNCHANGED frameDirs
                     ELSE /\ twoResponse' = [twoResponse EXCEPT ![r] = [status |-> 200]]
                          /\ frameDirs' = frameDirs \ {twoName[r]}
    /\ UNCHANGED <<twoName, twoFrameFiles, uuids, nonTwoVars>>

NextTwo ==
    \/ \E r \in Reqs, uuid \in Uuids, originalname \in OriginalNames :
          TwoRequest(r, uuid, originalname)
    \/ \E r \in Reqs, n \in 0..MaxTwoFrames : TwoExtractEnd(r, n)
    \/ \E r \in Reqs : TwoExtractError(r)
    \/ \E r \in Reqs : TwoAnalysisThrows(r)
    \/ \E r \in Reqs : TwoCleanUp(r)

SpecTwo == Init /\ [][NextTwo]_vars
(* ---------------------------------------------------------------------- *)
(* A session: a pose-based upload request and, once it is answered, the    *)
(* follow-up questions the browser posts with the report it received       *)
(* (App.tsx:312-327)                                                       *)
(* ---------------------------------------------------------------------- *)

\* ffmpeg writes at most this many frames in a session
MaxSessionFrames == 2

\* the follow-up questions of a session
SessionQuestions == QuestionsOf(1) \cup { WhatAreMyStrengths }

\* App.tsx:321-325 the analysisData the browser builds from the response
AnalysisDataOf(result) ==
    [ type |-> "object",
      detailedPrompts |-> result.detailedPrompts,
      technicalAnalysis |-> result.technicalAnalysis,
      sceneDescription |-> result.sceneDescription ]

\* an upload that asks for the pose-based orchestration
SessionRequest(ep) == Request(ep, "video", "true", "absent")

\* App.tsx:312-327, index.js:223-268: the browser has the report and posts
\* a question with it
SessionChat(q) ==
    /\ pc = "done"
    /\ response.status = 200
    /\ ChatRequest(q, AnalysisDataOf(response))

NextSession ==
    \/ \E ep \in Endpoints : SessionRequest(ep)
    \/ \E n \in 0..MaxSessionFrames : ExtractFramesEnd(n)
    \/ PoseCall
    \/ \E out \in PoseOutputs : PoseReturn(out)
    \/ PoseThrow
    \/ PoseEnd
    \/ TechCall
    \/ \E out \in TextOutputs : TechReturn(out)
    \/ TechThrow
    \/ TechEnd
    \/ SceneCall
    \/ \E out \in TextOutputs : SceneReturn(out)
    \/ SceneThrow
    \/ SceneEnd
    \/ ReportCall
    \/ \E out \in TextOutputs : ReportReturn(out)
    \/ ReportThrow
    \/ PoseBasedCatch
    \/ RespondUpload
    \/ RespondAnalyzePose
    \/ \E q \in SessionQuestions : SessionChat(q)
    \/ \E out \in TextOutputs : ChatReturn(out)
    \/ ChatThrow

SpecSession == Init /\ [][NextSession]_vars
(* ---------------------------------------------------------------------- *)
(* A caller of the analyses exported by replicate-models.js:               *)
(* analyzeSnowboardingVideoDirect (131-188) and the frame-based            *)
(* analyzeSnowboardingVideoAdvanced (191-259)                              *)
(* ---------------------------------------------------------------------- *)

\* the names bound where the catch block of analyzeSnowboardingVideoDirect
\* is evaluated: its parameter, the catch parameter and the bindings of the
\* module (replicate-models.js:4-40, 42, 74, 132, 191, 262)
DirectCatchScope ==
    { "videoPath", "error", "Replicate", "fs", "replicate", "imageToBase64",
      "REPLICATE_MODELS", "analyzeSnowboardingVideoCostEffective",
      "analyzeSnowboardingVideoPremium", "analyzeSnowboardingVideoDirect",
      "analyzeSnowboardingVideoAdvanced", "analyzeSnowboardingVideoMultiFrame" }

\* a caller holds n frame files and a video path whose file exists or not,
\* and calls analyzeSnowboardingVideoDirect(videoPath)
CallDirect(n, exists) ==
    /\ pc = "idle"
    /\ videoOnDisk' = exists
    /\ framesOnDisk' = 1..n
    /\ frameFiles' = SortedSeq(1..n)
    /\ pc' = "direct"
    /\ UNCHANGED <<reqVars, frameDirOnDisk, i, stageVars, analysis, callVars,
                   fallbacks, response, otherVars>>

\* a caller holds n frame files and calls
\* analyzeSnowboardingVideoAdvanced(framePaths)
CallAdvanced(n) ==
    /\ pc = "idle"
    /\ framesOnDisk' = 1..n
    /\ frameFiles' = SortedSeq(1..n)
    /\ pc' = "adv"
    /\ UNCHANGED <<reqVars, videoOnDisk, frameDirOnDisk, i, stageVars,
                   analysis, callVars, fallbacks, response, otherVars>>

\* replicate-models.js:136-180: the video is read (readFileSync throws when
\* the file is missing) and the one call is issued
DirectCall ==
    /\ pc = "direct"
    /\ inflight = {}
    /\ IF ~videoOnDisk
         THEN /\ pc' = "directCatch"
              /\ UNCHANGED callVars
         ELSE /\ Issue(Call("direct", 0, "analysis"))
              /\ UNCHANGED pc
    /\ UNCHANGED <<reqVars, diskVars, frameFiles, i, stageVars, analysis,
                   fallbacks, response, otherVars>>

\* replicate-models.js:182: analysis.join(' ') is a TypeError on a string
DirectReturn(out) ==
    /\ pc = "direct"
    /\ inflight # {}
    /\ Resolve
    /\ IF ArrayIsArray(out)
         THEN /\ analysis' = StringResult("direct", join(out.items, <<" ">>))
              /\ pc' = "respond"
         ELSE /\ pc' = "directCatch"
              /\ UNCHANGED analysis
    /\ UNCHANGED <<reqVars, diskVars, frameFiles, i, stageVars, fallbacks,
                   response, otherVars>>

\* replicate-models.js:183: the call threw
DirectThrow ==
    /\ pc = "direct"
    /\ inflight # {}
    /\ Reject
    /\ pc' = "directCatch"
    /\ UNCHANGED <<reqVars, diskVars, frameFiles, i, stageVars, analysis,
                   fallbacks, response, otherVars>>

\* replicate-models.js:183-187: the catch evaluates the argument
\* framePaths of the call of analyzeSnowboardingVideoAdvanced; a name that
\* is not bound is a ReferenceError, thrown out of the function before the
\* fallback is called
DirectCatch ==
    /\ pc = "directCatch"
    /\ IF "framePaths" \in DirectCatchScope
         THEN /\ pc' = "adv"
              /\ fallbacks' = Append(fallbacks, "advanced")
         ELSE /\ pc' = "directThrew"
              /\ UNCHANGED fallbacks
    /\ i' = 0
    /\ UNCHANGED <<reqVars, diskVars, frameFiles, stageVars, analysis,
                   callVars, response, otherVars>>

NextDirect ==
    \/ \E n \in 0..NumTimestamps, exists \in BOOLEAN : CallDirect(n, exists)
    \/ \E n \in 0..NumTimestamps : CallAdvanced(n)
    \/ DirectCall
    \/ \E out \in TextOutputs : DirectReturn(out)
    \/ DirectThrow
    \/ DirectCatch
    \/ AdvCall
    \/ \E out \in TextOutputs : AdvReturn(out)
    \/ AdvThrow
    \/ CeCall
    \/ \E out \in TextOutputs : CeReturn(out)
    \/ CeThrow

SpecDirect == Init /\ [][NextDirect]_vars
\* the browser, where every fetch of /api/chat is answered or fails in the
\* end
SpecClientLive ==
    SpecClient /\ WF_vars(\E req \in fetches, reply \in ChatReplies : ChatReply(req, reply))
(* ====================================================================== *)
(* Properties                                                              *)
(* ====================================================================== *)

\* the request runs analyzeSnowboardingVideoPoseBased
PoseBasedRun == pc \notin {"idle", "extract"} /\ file = "video"
                /\ (endpoint = "analyze-pose" \/ usePoseAnalysis)

\* the calls of one stage, in the order they were issued
StageCalls(stage) == SelectSeq(calls, LAMBDA c : c.stage = stage)

FramesOf(cs) == [k \in 1..Len(cs) |-> cs[k].frame]

ReportKeys == {"success", "analysis", "technicalAnalysis", "sceneDescription",
               "detailedPrompts", "pipeline"}

\* C1: analyzeSnowboardingVideoPoseBased never throws to its caller: for
\* every frame list and every combination of failing calls it returns an
\* object with success, analysis, technicalAnalysis, sceneDescription,
\* detailedPrompts and pipeline, and a 500 of /api/analyze-pose is never
\* the consequence of a failed model call.
C1_PoseBasedNeverFails ==
    /\ PoseBasedRun => pc \notin {"primaryThrew", "fallbackThrew", "adv", "ce"}
    /\ (PoseBasedRun /\ pc \in {"respond", "done"} /\ response.status # 500)
           => ReportKeys \subseteq DOMAIN analysis
    /\ (endpoint = "analyze-pose" /\ response.status = 500)
           => (calls = <<>> /\ failedCalls = {})

\* C1 witness: /api/analyze-pose answered 200 after a pose call and the
\* report call had failed
C1_Witness ==
    /\ endpoint = "analyze-pose"
    /\ pc = "done"
    /\ response.status = 200
    /\ \E c \in failedCalls : c.stage = "pose"
    /\ \E c \in failedCalls : c.stage = "report"

\* C2: when every pose-frame call failed, the returned report is tagged
\* 'image-based-fallback' and its detailedPrompts has exactly the keys
\* strengths, improvements and drills.
C2_AllPoseCallsFail ==
    ( /\ PoseBasedRun
      /\ pc \in {"respond", "done"}
      /\ StageCalls("pose") # <<>>
      /\ \A c \in SeqRange(StageCalls("pose")) : c \in failedCalls )
    => /\ analysis.type = "object"
       /\ analysis.pipeline = "image-based-fallback"
       /\ DOMAIN analysis.detailedPrompts = PromptKeys

\* C2 witness: five pose calls were issued, all five failed, the
\* orchestrator has returned
C2_Witness ==
    /\ PoseBasedRun
    /\ pc = "respond"
    /\ Len(calls) = PoseFrameCap
    /\ \A k \in 1..Len(calls) : calls[k].stage = "pose" /\ calls[k] \in failedCalls

\* detailedPrompts of an object is absent or has all three keys
FullOrAbsent(obj) ==
    "detailedPrompts" \in DOMAIN obj => DOMAIN obj.detailedPrompts = PromptKeys

\* C3: in every report the orchestrator returns and in every success
\* response of /api/upload and /api/analyze-pose, detailedPrompts is absent
\* or has all of strengths, improvements and drills, never one or two.
C3_PromptsAllOrNothing ==
    /\ FullOrAbsent(analysis)
    /\ response.status = 200 => FullOrAbsent(response)

\* C3 witness: /api/upload answered 200 on the image path, where the
\* handler builds the templates itself
C3_Witness ==
    /\ endpoint = "upload"
    /\ pc = "done"
    /\ response.status = 200
    /\ analysis.type = "string"
    /\ "detailedPrompts" \in DOMAIN response

\* C4: when a request that stored a video has finished, the video, every
\* frame file and the frame directory are gone, whatever the exit path.
C4_FilesDeletedOnEveryExit ==
    (pc = "done" /\ file = "video")
        => (~videoOnDisk /\ framesOnDisk = {} /\ ~frameDirOnDisk)

\* the calls the pose stage makes for a frame list
ExpectedPoseCalls(framePaths) ==
    [k \in 1..Min(5, Len(framePaths)) |-> Call("pose", framePaths[k], "pose")]

\* C5: when the pose stage ends it has called the pose model on exactly the
\* first min(5, N) frames, failed frames are left out of poseAnalyses and
\* the others are kept, and the stage goes on to stage 1 if some frame
\* succeeded and to the fallback if none did.
C5_PoseStage ==
    [][ (pc = "pose" /\ pc' # "pose") =>
          /\ calls' = ExpectedPoseCalls(frameFiles)
          /\ {poseAnalyses'[k].frame : k \in 1..Len(poseAnalyses')}
                 = {k \in 1..Len(calls') : calls'[k] \notin failedCalls'}
          /\ pc' = IF \E k \in 1..Len(calls') : calls'[k] \notin failedCalls'
                   THEN "tech" ELSE "catch" ]_vars

\* C5 witness: of nine frames five were called, the first and the third
\* call failed, and stage 1 has started
C5_Witness ==
    /\ pc = "tech"
    /\ Len(frameFiles) = NumTimestamps
    /\ Len(calls) = 5
    /\ calls[1] \in failedCalls
    /\ calls[3] \in failedCalls
    /\ Len(poseAnalyses) = 3

\* the calls of a pose-based run in which nothing fails
CanonicalCalls(framePaths) ==
    LET n == Len(framePaths)
        key == << framePaths[1], framePaths[(n \div 2) + 1], framePaths[n] >>
    IN  ExpectedPoseCalls(framePaths)
        \o << Call("tech", key[1], "beginning"), Call("tech", key[2], "middle"),
              Call("tech", key[3], "end") >>
        \o << Call("scene", key[1], "initiation"), Call("scene", key[2], "execution"),
              Call("scene", key[3], "completion") >>
        \o << Call("report", 0, "briefAssessment") >>

\* C6: in a pose-based run the calls are issued one at a time in the fixed
\* order pose frames, beginning, middle, end, initiation, execution,
\* completion, report: the calls issued so far are a prefix of that order
\* and the only call that can be in flight is the last one issued.
C6_SequentialStages ==
    (PoseBasedRun /\ calls # <<>>) =>
        /\ IsPrefix(calls, CanonicalCalls(frameFiles))
        /\ Cardinality(inflight) <= 1
        /\ inflight \subseteq {calls[Len(calls)]}

\* C6 witness: the report call is in flight after five pose calls, three
\* technical and three scene calls
C6_Witness ==
    /\ PoseBasedRun
    /\ Len(calls) = 12
    /\ inflight = {Call("report", 0, "briefAssessment")}

\* a report made of fixed text only
StaticReport(a) ==
    /\ IsStatic(a.analysis)
    /\ IsStatic(a.technicalAnalysis)
    /\ IsStatic(a.sceneDescription)
    /\ \A key \in DOMAIN a.detailedPrompts : IsStatic(a.detailedPrompts[key].embeds)

\* C7: from the moment the orchestrator is in its catch block no call is
\* issued for the rest of the run, and the report the block returns holds
\* fixed text only.
C7_FallbackMakesNoCall ==
    [][ (PoseBasedRun /\ (pc = "catch" \/ "static" \in SeqRange(fallbacks))) =>
          /\ calls' = calls
          /\ inflight' = {}
          /\ pc = "catch" => (pc' = "respond" /\ StaticReport(analysis')) ]_vars

\* C7 witness: the fallback report was returned after stage 1 had produced
\* its three analyses and a scene call failed
C7_Witness ==
    /\ PoseBasedRun
    /\ pc = "respond"
    /\ fallbacks = <<"static">>
    /\ Len(technicalAnalysis) = 3
    /\ \E c \in failedCalls : c.stage = "scene"

\* C8: for N >= 3 frames, stage 1 and stage 2 each analyse the frames at
\* indices 0, floor(N/2) and N-1, in that order, and so the same frames.
C8_KeyFrames ==
    (PoseBasedRun /\ Len(frameFiles) >= 3) =>
        LET n == Len(frameFiles)
            expected == << frameFiles[0 + 1], frameFiles[(n \div 2) + 1],
                           frameFiles[(n - 1) + 1] >>
        IN  /\ IsPrefix(FramesOf(StageCalls("tech")), expected)
            /\ IsPrefix(FramesOf(StageCalls("scene")), expected)
            /\ Len(technicalAnalysis) = 3 => FramesOf(StageCalls("tech")) = expected
            /\ Len(sceneDescription) = 3 =>
                   /\ FramesOf(StageCalls("scene")) = expected
                   /\ FramesOf(StageCalls("scene")) = FramesOf(StageCalls("tech"))

\* C8 witness: both stages are complete for a list of six frames
C8_Witness ==
    /\ PoseBasedRun
    /\ Len(frameFiles) = 6
    /\ Len(technicalAnalysis) = 3
    /\ Len(sceneDescription) = 3

\* C9 as stated: a request to /api/upload in which a model call failed
\* still ends with a success response, on the pose path and on the image
\* path.
C9_FailureAlwaysAbsorbed ==
    (pc = "done" /\ endpoint = "upload" /\ failedCalls # {})
        => response.status = 200

\* C9 amended: on the pose path a failed call is skipped or replaced by the
\* static report and the response is a success; on the image path the
\* handler runs the advanced and then the cost-effective analysis instead,
\* the response is a success if one of them returned a text and a 500 if
\* the cost-effective analysis failed too.
C9_FailureAbsorbedUnlessAllFail ==
    (pc = "done" /\ endpoint = "upload" /\ failedCalls # {}) =>
        IF usePoseAnalysis
        THEN /\ response.status = 200
             /\ fallbacks \in {<<>>, <<"static">>}
             /\ fallbacks = <<>> => \A c \in failedCalls : c.stage = "pose"
        ELSE /\ fallbacks \in {<<"advanced">>, <<"advanced", "costEffective">>}
             /\ response.status = 200 =>
                    /\ analysis.type = "string"
                    /\ analysis.str[1].label \in {"advanced", "costEffective"}
             /\ response.status # 200 =>
                    /\ response.status = 500
                    /\ fallbacks = <<"advanced", "costEffective">>
                    /\ analysis.type = "undefined"

\* C9 witness: on the image path the multi-frame, the advanced and the
\* cost-effective analysis each had a call fail and the answer is 500
C9_Witness ==
    /\ pc = "done"
    /\ endpoint = "upload"
    /\ ~usePoseAnalysis
    /\ response.status = 500
    /\ {c.stage : c \in failedCalls} = {"mf", "adv", "ce"}

\* C10: the branch of a follow-up question is the first of strengths,
\* improvements, drills whose keywords the lower-cased question contains,
\* generic if none does, and the response carries that branch's label; so
\* "What are my strengths?" is answered with sectionType "Key Strengths".
C10_FirstMatchWins ==
    chatResponse.status = 200 =>
        LET s == Mentions(question, StrengthsKeywords)
            m == Mentions(question, ImprovementsKeywords)
            d == Mentions(question, DrillsKeywords)
        IN  /\ s => /\ chatResponse.sectionType = "Key Strengths"
                    /\ prompt = analysisData.detailedPrompts.strengths
            /\ (~s /\ m) => /\ chatResponse.sectionType = "Main Areas for Improvement"
                            /\ prompt = analysisData.detailedPrompts.improvements
            /\ (~s /\ ~m /\ d) => /\ chatResponse.sectionType = "Specific Drills and Exercises"
                                  /\ prompt = analysisData.detailedPrompts.drills
            /\ (~s /\ ~m /\ ~d) => /\ chatResponse.sectionType = ""
                                   /\ prompt.template = "generic"
            /\ question = WhatAreMyStrengths => chatResponse.sectionType = "Key Strengths"

\* C10 witness: a question with a strengths keyword in capitals and an
\* improvements keyword was answered as Key Strengths
C10_Witness ==
    /\ chatResponse.status = 200
    /\ includes(question, <<"G", "O", "O", "D">>)
    /\ Mentions(question, ImprovementsKeywords)
    /\ chatResponse.sectionType = "Key Strengths"

\* the lower-cased question contains "drill" and "good"
DrillAndGood(q) ==
    /\ includes(toLowerCase(q), <<"d", "r", "i", "l", "l">>)
    /\ includes(toLowerCase(q), <<"g", "o", "o", "d">>)

\* C11 as stated: a question that contains "drill" is answered from the
\* drills template even if it also contains "good".
C11_DrillBeatsGood ==
    (chatResponse.status = 200 /\ DrillAndGood(question)) =>
        /\ chatResponse.sectionType = "Specific Drills and Exercises"
        /\ prompt = analysisData.detailedPrompts.drills

\* C11 amended: a question that contains "drill" and "good" is answered
\* from the strengths template, because the strengths keywords are tested
\* first; a question that contains "drill" is answered from the drills
\* template only when it contains no strengths and no improvements keyword.
C11_GoodBeatsDrill ==
    (chatResponse.status = 200
       /\ includes(toLowerCase(question), <<"d", "r", "i", "l", "l">>)) =>
        /\ includes(toLowerCase(question), <<"g", "o", "o", "d">>) =>
              /\ chatResponse.sectionType = "Key Strengths"
              /\ prompt = analysisData.detailedPrompts.strengths
        /\ chatResponse.sectionType = "Specific Drills and Exercises" <=>
              /\ ~Mentions(question, StrengthsKeywords)
              /\ ~Mentions(question, ImprovementsKeywords)

\* C11 witness: "Drills GOOD", drill before good in the question, was
\* answered as Key Strengths
C11_Witness ==
    /\ chatResponse.status = 200
    /\ question = <<"D", "r", "i", "l", "l", "s", " ", "G", "O", "O", "D">>
    /\ chatResponse.sectionType = "Key Strengths"
    /\ prompt = analysisData.detailedPrompts.strengths

\* the per-frame calls of analyzeSnowboardingVideoPremium not yet settled
PremiumInFlight == {k \in 1..Len(premPromises) : premPromises[k] = Pending}

\* C12: analyzeSnowboardingVideoPremium issues the call of every frame
\* before any of them completes, issues the synthesis call only after every
\* per-frame call has completed, and joins the results as Frame 1, Frame 2,
\* ... in the order of the input frames, whatever the order of completion.
C12_PremiumOrder ==
    /\ premPc # "idle" =>
          /\ Len(premCalls) >= Len(premFramePaths)
          /\ \A k \in 1..Len(premFramePaths) :
                premCalls[k] = Call("premium", premFramePaths[k], "frameAnalysis")
    /\ (\E k \in 1..Len(premCalls) : premCalls[k].stage = "premiumSynth") =>
          /\ PremiumInFlight = {}
          /\ Len(premOrder) = Len(premFramePaths)
          /\ Len(premCalls) = Len(premFramePaths) + 1
          /\ Len(premAnalyses) = Len(premFramePaths)
          /\ \A k \in 1..Len(premAnalyses) :
                /\ premAnalyses[k].label = "Frame"
                /\ premAnalyses[k].frame = k
                /\ premAnalyses[k] = premPromises[k].value

\* C12 witness: the three calls completed in the order 3, 1, 2 and the
\* synthesis call was issued with the analyses of frames 1, 2, 3
C12_Witness ==
    /\ premOrder = <<2, 0, 1>>
    /\ premPc = "synth"
    /\ premCalls[Len(premCalls)].stage = "premiumSynth"
    /\ [k \in 1..3 |-> premAnalyses[k].frame] = <<1, 2, 3>>

\* C13 as stated: cleanText is idempotent, cleanText(cleanText(x)) is
\* cleanText(x) for every text x, texts with * . : , - included.
C13_Idempotent ==
    textPc = "twice" => textTwice = textOnce

\* C14 as stated: an upload request with no file in the video field, or
\* with a file whose mimetype and name are not a video's, is answered with
\* HTTP 400 and a message, and nothing is extracted and no model is called.
C14_ValidationErrorIs400 ==
    (pc = "done" /\ endpoint \in Endpoints /\ file # "video") =>
        /\ response.status = 400
        /\ "error" \in DOMAIN response
        /\ calls = <<>>
        /\ ~videoOnDisk /\ ~frameDirOnDisk /\ framesOnDisk = {}

\* the stages of the two primary analyses
PrimaryStages == {"pose", "tech", "scene", "report", "mf", "mfSynth"}

\* C15 as stated: one upload request takes at most one fallback; after the
\* primary orchestration failed exactly one substitution is attempted, and
\* no second-level fallback and no re-run of the primary follows.
C15_AtMostOneFallback ==
    /\ Len(fallbacks) <= 1
    /\ \A j, k \in 1..Len(calls) :
          (j < k /\ calls[j].stage \notin PrimaryStages) =>
              calls[k].stage \notin PrimaryStages

\* C15 amended: the pose path takes at most one fallback, the static
\* report; the image path takes the handler's fallback to Advanced, and
\* Advanced, when it fails, takes a second-level fallback to CostEffective;
\* nothing follows CostEffective and the primary is never run again.
C15_FallbackChain ==
    /\ fallbacks \in { <<>>, <<"static">>, <<"advanced">>, <<"advanced", "costEffective">> }
    /\ (endpoint = "analyze-pose" \/ usePoseAnalysis) => fallbacks \in { <<>>, <<"static">> }
    /\ \A j, k \in 1..Len(calls) :
          (j < k /\ calls[j].stage \notin PrimaryStages) =>
              calls[k].stage \notin PrimaryStages
    /\ \A j, k \in 1..Len(calls) :
          (j < k /\ calls[j].stage = "ce") => calls[k].stage = "ce"
    /\ Len(StageCalls("ce")) <= 1
    /\ fallbacks = <<"static">> => inflight = {} /\ pc \in {"respond", "done"}

\* C15 witness: the multi-frame analysis failed, Advanced failed, and the
\* request was answered with the text of CostEffective
C15_Witness ==
    /\ pc = "done"
    /\ response.status = 200
    /\ fallbacks = <<"advanced", "costEffective">>
    /\ \E c \in failedCalls : c.stage \in {"mf", "mfSynth"}
    /\ Len(StageCalls("ce")) = 1

\* the stages of analyzeSnowboardingVideoPoseBased
PoseBasedStages == {"pose", "tech", "scene", "report"}

\* a failed call of stage 2, 3 or 4 is the last call of the run
FailedCallEndsStage ==
    \A j \in 1..Len(calls) :
        (calls[j] \in failedCalls /\ calls[j].stage \in {"tech", "scene", "report"}) =>
            j = Len(calls)

\* C16 as stated: in a pose-based run every (stage, frame) call is issued
\* at most once, and a failed call of the technical-analysis,
\* scene-description or report stage ends the stage at once.
C16_EachStageFrameOnce ==
    /\ \A j, k \in 1..Len(calls) :
          (j < k /\ calls[j].stage \in PoseBasedStages) =>
              <<calls[j].stage, calls[j].frame>> # <<calls[k].stage, calls[k].frame>>
    /\ FailedCallEndsStage

\* C16 amended: in a pose-based run no call is issued again: a call is
\* told by its stage, its frame and its key position (beginning, middle,
\* end), and each is issued at most once; with fewer than three frames the
\* key positions fall on the same frame, which a stage then sends once per
\* position. A failed call of stage 2, 3 or 4 is the last call of the run.
C16_NoRetry ==
    /\ \A j, k \in 1..Len(calls) :
          (j < k /\ calls[j].stage \in PoseBasedStages) => calls[j] # calls[k]
    /\ \A s \in {"tech", "scene"} :
          /\ Len(StageCalls(s)) <= 3
          /\ \A j, k \in 1..Len(StageCalls(s)) :
                j < k => StageCalls(s)[j].label # StageCalls(s)[k].label
    /\ Len(StageCalls("pose")) <= PoseFrames(frameFiles)
    /\ Len(StageCalls("report")) <= 1
    /\ FailedCallEndsStage

\* C16 witness: two frames were extracted, stage 2 sent frame 2 as the
\* middle and as the end frame, and the first call of stage 3 failed and
\* ended the stage
C16_Witness ==
    /\ pc = "done"
    /\ Len(frameFiles) = 2
    /\ FramesOf(StageCalls("tech")) = <<1, 2, 2>>
    /\ Len(StageCalls("scene")) = 1
    /\ StageCalls("scene")[1] \in failedCalls

\* C17 as stated: the chat history of the browser is append-only: every
\* change of chatHistory adds turns at the end, and no operation removes
\* or reorders the turns already in it.
C17_AppendOnly ==
    [][IsPrefix(chatHistory, chatHistory')]_vars

\* C17 amended: a change of chatHistory adds turns at the end, except that
\* the App of App.tsx:229 empties the chat history when a video analysis
\* starts; the App of App.tsx:26 never removes a turn.
C17_AppendOnlyBetweenAnalyses ==
    [][ \/ IsPrefix(chatHistory, chatHistory')
        \/ /\ appVariant = 2
           /\ started' = started + 1
           /\ isAnalyzing'
           /\ chatHistory' = <<>> ]_vars

\* C17 witness: a message was sent and is waiting for its reply, and a
\* video analysis that started afterwards has emptied the chat history
C17_Witness ==
    /\ appVariant = 2
    /\ isAnalyzing
    /\ chatHistory = <<>>
    /\ started = 2
    /\ \E req \in fetches : req.kind = "chat"

\* the files and the directory on disk that carry the stored name of request r
FilesOf(r, up, dirs, fr) ==
    [ video |-> up \cap {twoName[r]},
      dir |-> dirs \cap {twoName[r]},
      frames |-> {f \in fr : f[1] = twoName[r]} ]

\* C18: two upload requests in flight at the same time share no file: the
\* stored names differ, each request lists, reads and deletes only the
\* video and the frames under its own name, no request fails because a
\* file of its own is gone, and a step of one request leaves the files of
\* the other as they are.
C18_NoSharedFiles ==
    /\ [](\A r, q \in Reqs :
            /\ (r # q /\ twoName[r] # <<>>) => twoName[r] # twoName[q]
            /\ twoPc[r] = "analyse" =>
                  /\ twoName[r] \in uploads
                  /\ twoName[r] \in frameDirs
                  /\ \A k \in SeqRange(twoFrameFiles[r]) : <<twoName[r], k>> \in frames
            /\ twoResponse[r].status = 500 =>
                  twoResponse[r].details \in {"ffmpeg exited with an error",
                                              "Failed to analyze video"}
            /\ twoResponse[r].status = 200 =>
                  FilesOf(r, uploads, frameDirs, frames) =
                      [video |-> {}, dir |-> {}, frames |-> {}])
    /\ [][\A r \in Reqs :
            (twoPc'[r] = twoPc[r] /\ twoName[r] # <<>>) =>
                FilesOf(r, uploads', frameDirs', frames') =
                    FilesOf(r, uploads, frameDirs, frames)]_vars

\* C18 witness: two uploads of files with the same original name were in
\* flight together; the first was answered and its files are deleted, the
\* video and the frames of the second are still on disk
C18_Witness ==
    /\ twoPc[1] = "done" /\ twoResponse[1].status = 200
    /\ twoPc[2] = "analyse"
    /\ twoName[1][2] = twoName[2][2]
    /\ Len(twoFrameFiles[1]) = MaxTwoFrames
    /\ FilesOf(2, uploads, frameDirs, frames) =
          [video |-> {twoName[2]}, dir |-> {twoName[2]},
           frames |-> {<<twoName[2], k>> : k \in 1..MaxTwoFrames}]

\* the request asks for the pose-based orchestration
PoseRequested ==
    \/ endpoint = "analyze-pose"
    \/ endpoint = "upload" /\ (poseAnalysis = "true" \/ poseQuery = "true")

\* C19: POST /api/upload runs the pose-based orchestration exactly when the
\* form field poseAnalysis is 'true' or the query parameter pose is 'true',
\* and the multi-frame image path otherwise; POST /api/analyze-pose always
\* runs the pose-based orchestration.
C19_PathSelection ==
    /\ pc \in {"pose", "tech", "scene", "report", "catch"} => PoseRequested
    /\ pc \in {"mf", "mfSynth", "primaryThrew", "adv", "ce", "fallbackThrew"} =>
          ~PoseRequested
    /\ calls # <<>> =>
          /\ calls[1].stage = "pose" <=> PoseRequested
          /\ calls[1].stage \in {"mf", "mfSynth"} <=> ~PoseRequested
    /\ (PoseRequested /\ frameFiles # <<>>) =>
          \A c \in SeqRange(calls) : c.stage \in {"pose", "tech", "scene", "report"}
    /\ ~PoseRequested =>
          \A c \in SeqRange(calls) : c.stage \in {"mf", "mfSynth", "adv", "ce"}
    /\ (endpoint = "upload" /\ pc \notin {"idle", "extract"} /\ frameFiles # <<>>) =>
          (usePoseAnalysis <=> (poseAnalysis = "true" \/ poseQuery = "true"))

\* C19 witness: an upload with poseAnalysis=false in the form and pose=true
\* in the query ran the pose stage first and was answered
C19_Witness ==
    /\ endpoint = "upload"
    /\ poseAnalysis = "false"
    /\ poseQuery = "true"
    /\ pc = "done"
    /\ response.status = 200
    /\ calls # <<>>
    /\ calls[1].stage = "pose"

\* the names of the three deferred prompt templates of the report stage
DeferredTemplates ==
    {"detailedStrengthsPrompt", "detailedImprovementsPrompt", "detailedDrillsPrompt"}

\* the prompt POST /api/chat has submitted is a deferred template of the report
SubmittedTemplate ==
    /\ chatPc \in {"awaiting", "done"}
    /\ "template" \in DOMAIN prompt
    /\ prompt.template \in DeferredTemplates

\* C20: in one orchestration run the report stage calls the text model
\* exactly once, for the brief assessment; the three deferred templates are
\* built into the report but no call of the upload request submits one; a
\* template is submitted only by a later POST /api/chat whose question
\* routes to it.
C20_TemplatesDeferred ==
    /\ Len(StageCalls("report")) <= 1
    /\ \A c \in SeqRange(calls) : c.label \notin DeferredTemplates
    /\ \A c \in SeqRange(StageCalls("report")) : c.label = "briefAssessment"
    /\ (pc \in {"respond", "done"} /\ fallbacks = <<>> /\ file = "video") =>
          /\ Len(StageCalls("report")) = 1
          /\ calls[Len(calls)] = Call("report", 0, "briefAssessment")
          /\ {analysis.detailedPrompts[k].template : k \in PromptKeys} = DeferredTemplates
    /\ chatPc # "idle" => pc = "done" /\ response.status = 200
    /\ SubmittedTemplate =>
          /\ Route(question) \in PromptKeys
          /\ prompt = response.detailedPrompts[Route(question)]
          /\ fallbacks = <<>>

\* C20 witness: the four stages succeeded with one report call, and a
\* later question about drills submitted the drills template of the report
C20_Witness ==
    /\ pc = "done"
    /\ fallbacks = <<>>
    /\ Len(StageCalls("report")) = 1
    /\ chatResponse.status = 200
    /\ SubmittedTemplate
    /\ prompt.template = "detailedDrillsPrompt"
    /\ prompt = response.detailedPrompts.drills

\* a replicate.run call settles with an output in this step
OutputConsumed ==
    /\ inflight # {}
    /\ inflight' = {}
    /\ failedCalls' = failedCalls

\* C21 as stated: every caller that consumes a model's output normalizes
\* every output shape without failing; a generated text is the same text
\* whether the model answered with a string or with a sequence of tokens.
C21_AllShapesNormalized ==
    /\ [](\A k \in 1..Len(technicalAnalysis) : technicalAnalysis[k].text = ModelText)
    /\ [](\A k \in 1..Len(sceneDescription) : sceneDescription[k].text = ModelText)
    /\ [](\A k \in 1..Len(mfAnalyses) : mfAnalyses[k].text = ModelText)
    /\ [][OutputConsumed =>
             /\ pc' \notin {"catch", "primaryThrew", "fallbackThrew"}
             /\ fallbacks' = fallbacks]_vars

\* analyzeSnowboardingVideoDirect has left its try block with an error and
\* its catch block has run
DirectFailedOver ==
    /\ \E k \in 1..Len(calls) : calls[k].stage = "direct"
    /\ \E c \in failedCalls : c.stage = "direct"
    /\ pc \notin {"direct", "directCatch"}

\* C22 as stated: when the direct video model call fails,
\* analyzeSnowboardingVideoDirect falls back to
\* analyzeSnowboardingVideoAdvanced and returns what that analysis returns
\* instead of failing.
C22_DirectFallsBackToAdvanced ==
    DirectFailedOver =>
        /\ pc # "directThrew"
        /\ Len(fallbacks) >= 1 /\ fallbacks[1] = "advanced"
        /\ pc = "respond" => \E k \in 1..Len(calls) : calls[k].stage \in {"adv", "ce"}

\* POST /api/upload has answered with a success response
UploadSucceeded == pc = "done" /\ endpoint = "upload" /\ response.status = 200

\* C23: every success response of POST /api/upload carries a
\* detailedPrompts object with the three keys strengths, improvements and
\* drills; when the analysis returned plain text the handler builds the
\* three templates from the first 1500 characters of the whitespace-collapsed
\* text, otherwise it passes on the templates of the analysis.
C23_UploadPromptsComplete ==
    UploadSucceeded =>
        /\ DOMAIN response.detailedPrompts = PromptKeys
        /\ analysis.type = "string" =>
              \A key \in PromptKeys :
                 /\ response.detailedPrompts[key].embeds = cleanAnalysis(analysis.str)
                 /\ response.detailedPrompts[key].cut = 1500
        /\ analysis.type = "object" =>
              response.detailedPrompts = analysis.detailedPrompts

\* C23 witness: the multi-frame analysis returned plain text and the
\* request was answered with templates built by the handler
C23_Witness ==
    /\ UploadSucceeded
    /\ ~usePoseAnalysis
    /\ fallbacks = <<>>
    /\ analysis.type = "string"
    /\ response.detailedPrompts.drills.template = "uploadDrills"

\* POST /api/analyze-pose has answered with a success response
AnalyzePoseSucceeded ==
    pc = "done" /\ endpoint = "analyze-pose" /\ response.status = 200

\* C24: the pipeline field of every success response of POST
\* /api/analyze-pose is 'pose-based-4stage', also when the orchestrator
\* fell back and tagged its report 'image-based-fallback'; in that case the
\* response's poseImages is the empty list and it has no poseAnalyses.
C24_AnalyzePosePipelineTag ==
    AnalyzePoseSucceeded =>
        /\ response.pipeline = "pose-based-4stage"
        /\ analysis.pipeline \in {"pose-based-4stage", "image-based-fallback"}
        /\ analysis.pipeline = "image-based-fallback" =>
              /\ response.poseImages = <<>>
              /\ "poseAnalyses" \notin DOMAIN response
              /\ fallbacks = <<"static">>

\* C24 witness: the orchestrator fell back after pose frames had been
\* analysed, and the response is tagged 'pose-based-4stage'
C24_Witness ==
    /\ AnalyzePoseSucceeded
    /\ analysis.pipeline = "image-based-fallback"
    /\ response.pipeline = "pose-based-4stage"
    /\ poseAnalyses # <<>>
    /\ response.poseImages = <<>>

\* every field of the report comes from the model calls of this run
ReportFromModelCalls(a) ==
    /\ a.pipeline = "pose-based-4stage"
    /\ fallbacks = <<>>
    /\ \A c \in failedCalls : c.stage = "pose"
    /\ ~IsStatic(a.analysis)
    /\ a.technicalAnalysis = technicalAnalysis /\ Len(technicalAnalysis) = 3
    /\ a.sceneDescription = sceneDescription /\ Len(sceneDescription) = 3
    /\ \A k \in 1..3 : ~IsStatic(<<a.technicalAnalysis[k]>>)
                       /\ ~IsStatic(<<a.sceneDescription[k]>>)
    /\ \A key \in PromptKeys : a.detailedPrompts[key].embeds = technicalAnalysis
    /\ a.poseAnalyses = poseAnalyses /\ poseAnalyses # <<>>
    /\ a.poseImages = PoseImages(poseAnalyses)

\* every field of the report is a fixed text and there are no pose results
ReportAllStatic(a) ==
    /\ a.pipeline = "image-based-fallback"
    /\ fallbacks = <<"static">>
    /\ IsStatic(a.analysis)
    /\ IsStatic(a.technicalAnalysis)
    /\ IsStatic(a.sceneDescription)
    /\ \A key \in PromptKeys : IsStatic(a.detailedPrompts[key].embeds)
    /\ "poseAnalyses" \notin DOMAIN a
    /\ a.poseImages = <<>>

\* C25: a report returned by the pose-based orchestrator is never a mixture:
\* either all of its fields come from the model calls of a run in which every
\* stage succeeded, or all of them are the static fallback values with no
\* pose results, even when earlier stages had succeeded before the failure.
C25_ReportNeverMixed ==
    (PoseBasedRun /\ pc \in {"respond", "done"} /\ analysis.type = "object") =>
        \/ ReportFromModelCalls(analysis)
        \/ ReportAllStatic(analysis)

\* C25 witness: the pose and technical stages succeeded, a later call
\* failed, and the report returned is the static one
C25_Witness ==
    /\ PoseBasedRun
    /\ pc = "respond"
    /\ poseAnalyses # <<>>
    /\ Len(technicalAnalysis) = 3
    /\ \E c \in failedCalls : c.stage \in {"scene", "report"}
    /\ ReportAllStatic(analysis)

\* estimatePoses has returned its result
PoseStageSucceeded == PoseBasedRun /\ pc # "pose" /\ poseAnalyses # <<>>

\* the pose calls of the request that returned an output
SucceededPoseCalls == {c \in SeqRange(StageCalls("pose")) : c \notin failedCalls}

\* C26: after a pose stage that succeeds, poseAnalyses has one entry per
\* frame whose call succeeded, its frame numbers are strictly increasing
\* values in 1..min(5, N), and frameCount is the number of entries, between
\* 1 and min(5, N).
C26_PoseAnalysesList ==
    PoseStageSucceeded =>
        LET poseResult == PoseResult(poseAnalyses, frameFiles)
            top == Min(PoseFrameCap, Len(frameFiles))
        IN  /\ Len(poseResult.poseAnalyses) = Cardinality(SucceededPoseCalls)
            /\ {poseResult.poseAnalyses[k].frame : k \in 1..Len(poseResult.poseAnalyses)}
                   = {c.frame : c \in SucceededPoseCalls}
            /\ \A k \in 1..Len(poseResult.poseAnalyses) :
                   poseResult.poseAnalyses[k].frame \in 1..top
            /\ \A j, k \in 1..Len(poseResult.poseAnalyses) :
                   j < k => poseResult.poseAnalyses[j].frame < poseResult.poseAnalyses[k].frame
            /\ poseResult.frameCount = Len(poseResult.poseAnalyses)
            /\ poseResult.frameCount \in 1..top

\* C26 witness: more than five frames were extracted, the call of the
\* second frame failed and the stage returned the other four
C26_Witness ==
    /\ PoseStageSucceeded
    /\ pc = "tech"
    /\ Len(frameFiles) > PoseFrameCap
    /\ Call("pose", 2, "pose") \in failedCalls
    /\ [k \in 1..Len(poseAnalyses) |-> poseAnalyses[k].frame] = <<1, 3, 4, 5>>

\* the fetch of /api/chat made for message m
ChatFetch(m) == [kind |-> "chat", id |-> m, url |-> "/api/chat"]

\* the texts of the assistant turns that answer a message
ReplyTexts ==
    {r.response : r \in {x \in ChatReplies : "response" \in DOMAIN x}}
        \cup {Sorry, PleaseUpload}

\* turn is the assistant's answer to message m
IsReplyTo(turn, m) ==
    turn.role = "assistant" /\ turn.content.of = m /\ turn.content.text \in ReplyTexts

\* the number of answers to messages among the turns of a history
RECURSIVE Replies(_)
Replies(history) ==
    IF history = <<>> THEN 0
    ELSE Replies(Tail(history))
         + (IF \E m \in 1..sent + 1 : IsReplyTo(Head(history), m) THEN 1 ELSE 0)

RECURSIVE UserTurns(_)
UserTurns(history) ==
    IF history = <<>> THEN 0
    ELSE UserTurns(Tail(history)) + (IF Head(history).role = "user" THEN 1 ELSE 0)

OneReplyPerMessage ==
    /\ sent' # sent =>
          /\ sent' = sent + 1
          /\ Len(chatHistory') > Len(chatHistory)
          /\ IsPrefix(chatHistory, chatHistory')
          /\ chatHistory'[Len(chatHistory) + 1].role = "user"
          /\ \/ /\ Len(chatHistory') = Len(chatHistory) + 1
                /\ ChatFetch(sent') \notin fetches
                /\ fetches' = fetches \cup {ChatFetch(sent')}
             \/ /\ Len(chatHistory') = Len(chatHistory) + 2
                /\ chatHistory'[Len(chatHistory) + 2] =
                       Turn("assistant", Content(PleaseUpload, sent'))
                /\ fetches' = fetches
    /\ \A m \in 1..sent :
          (ChatFetch(m) \in fetches /\ ChatFetch(m) \notin fetches') =>
              /\ Len(chatHistory') = Len(chatHistory) + 1
              /\ IsPrefix(chatHistory, chatHistory')
              /\ IsReplyTo(chatHistory'[Len(chatHistory')], m)
              /\ chatHistory'[Len(chatHistory')].content.text # PleaseUpload
    /\ (sent' = sent /\ \A m \in 1..sent : (ChatFetch(m) \in fetches => ChatFetch(m) \in fetches')) =>
          /\ Replies(chatHistory') <= Replies(chatHistory)
          /\ UserTurns(chatHistory') <= UserTurns(chatHistory)
          /\ \A m \in 1..sent : (ChatFetch(m) \in fetches' => ChatFetch(m) \in fetches)

MessagesOfHistory == (sent - UserTurns(chatHistory) + 1)..sent

\* C28 as stated: after handleVideoAnalysis has cleared the chat history for
\* a new upload, the history holds only turns of that upload: the answer to
\* a question sent before the upload started is never appended to the new
\* history when its response arrives late.
C28_NoLateReplyInNewHistory ==
    appVariant = 2 =>
        \A k \in 1..Len(chatHistory), m \in 1..sent :
            IsReplyTo(chatHistory[k], m) => m \in MessagesOfHistory

\* the analysis requests started by handleVideoAnalysis and not yet answered
AnalysesInFlight == {req \in fetches : req.kind = "analysis"}

\* C29 as stated: isAnalyzing is true whenever an analysis request started
\* by handleVideoAnalysis is in flight and false once every such request
\* has ended, and at most one analysis request is in flight at a time,
\* whether the file came through the input or was dropped.
C29_OneAnalysisAtATime ==
    /\ isAnalyzing <=> AnalysesInFlight # {}
    /\ Cardinality(AnalysesInFlight) <= 1

\* the message ChatInterface passed to onSendMessage in this step: the
\* text of the user turn handleChatMessage appended
MessagePassed == chatHistory'[Len(chatHistory) + 1].content.text

\* C30 as stated: the chat UI never passes a message to onSendMessage while
\* isAnalyzing is true and never passes an empty or whitespace-only
\* message, for the send button, the Enter key and the quick-question
\* chips.
C30_NoMessageWhileAnalyzing ==
    [][sent' # sent =>
          /\ ~isAnalyzing
          /\ trim(MessagePassed) # <<>>]_vars

====
